---- MODULE Spec2Model ----
(***************************************************************************)
(* Model of the filesystem-native task engine of obsidian-mcp               *)
(* (src/src/tools/tasks.py): the task codec (parse_task_line,               *)
(* format_task_line), filter_tasks, sort_tasks and the line-addressed       *)
(* mutations toggle_task_status_fs_tool, update_task_metadata_fs_tool and   *)
(* create_task_fs_tool, the vault scan scan_vault_for_tasks, and the        *)
(* registered tools of src/src/server.py that wrap them.                    *)
(*                                                                         *)
(* Text is modelled as a sequence of whitespace-separated tokens.  A token *)
(* is a record [k, s, d]: k is the kind ("word", "tag", "date", "prio",     *)
(* "rec"), s the text of a word/tag or the code point of the emoji, d the   *)
(* eight digits YYYYMMDD that follow a date emoji (<<>> otherwise).         *)
(* A date object is a record [year, month, day], as datetime.date is.       *)
(* An absent value (None) is <<>>, NoDate or "None"; a present optional     *)
(* value v is <<v>>.                                                        *)
(*                                                                         *)
(* The specifications share the variables:                                 *)
(*   SpecCodec     a Task is formatted and parsed back, or a line is       *)
(*                 parsed and formatted back;                               *)
(*   SpecQuery     one call of filter_tasks or sort_tasks on a Task list;  *)
(*   SpecMutation  up to MaxCalls toggles of one note;                      *)
(*   SpecUpdate    toggles, or one update_task_metadata call, on one note;  *)
(*   SpecCreate    one create_task call on one note;                        *)
(*   SpecScan      one scan, or one search, of a vault;                     *)
(*   SpecApi       calls of the API tools (Dataview query, command);        *)
(*   SpecGraph     one link graph built, then connection queries;           *)
(*   SpecDisk      two invocations that read and write one stored note.     *)
(* The regular expressions of utils/patterns.py are not part of the        *)
(* sources at hand; TASK_CHECKBOX, TASK_* and TAG_PATTERN follow the token *)
(* grammar of the specification (section 6).                                *)
(* The API tools (tools/dataview_api.py, tools/commands.py) are modelled    *)
(* with the client of utils/obsidian_api_client.py; utils/api_availability  *)
(* and the module of the link tools are not part of the sources either:     *)
(* require_api_available and the link graph follow the specification        *)
(* (section 4.4).                                                           *)
(***************************************************************************)
EXTENDS Integers, Sequences, FiniteSets, TLC

VARIABLES
    today,      \* date.today() seen by the operations
    kind,       \* codec run: "task" (format, then parse) or "line" (parse, then format)
    t0,         \* codec run: the Task handed to format_task_line (<<>> or <<task>>)
    l0,         \* codec run: the line handed to parse_task_line (<<>> or <<line>>)
    line,       \* codec run: last output of format_task_line (<<>> or <<line>>)
    task,       \* codec run: last output of parse_task_line (<<>> none yet, else <<result>>)
    pc,         \* position of the run
    qtasks,     \* query: the Task list handed to filter_tasks / sort_tasks
    qop,        \* query: last call made ("none", "filter", "sort")
    qargs,      \* query: arguments of the last call (<<>> or <<record>>)
    qresult,    \* query: list returned by the last call
    file,       \* the note: its lines, each [text, nl] (nl: ends with a newline)
    file0,      \* the note as it was before the first mutation
    calls,      \* the mutations made so far, each with its arguments and result
    exists,     \* whether the note exists on disk
    vault,      \* the vault scanned: [root, files], files in rglob order
    scan,       \* the scan or search made (<<>> none yet, else <<[op, args, result]>>);
                \* the list a scan returns is result.tasks
    host,       \* the host application: [available, accepts]
    requests,   \* the HTTP requests sent to the host so far
    reply,      \* the API tool calls made, each [tool, args, raised, message, value, sent]
    notes,      \* the notes of the vault whose links are followed: each [name, links]
    graph,      \* the link graph built (<<>> none yet, else <<[outlinks, backlinks, broken]>>)
    conns,      \* the get_note_connections queries made, each [note, depth, result]
    disk,       \* the note as stored: [lines, linesep]; a line is [text, eol] with
                \* eol "", "LF" or "CRLF", linesep is os.linesep ("LF" or "CRLF")
    procs,      \* the invocations running on the stored note, each with its position
    log         \* the reads and writes of the stored note, in the order they happened

codecVars == <<kind, t0, l0, line, task, pc>>
queryVars == <<qtasks, qop, qargs, qresult>>
fileVars  == <<file, file0, calls, exists>>
vaultVars == <<vault, scan>>
apiVars   == <<host, requests, reply>>
graphVars == <<notes, graph, conns>>
diskVars  == <<disk, procs, log>>
restVars  == <<apiVars, graphVars, diskVars>>
vars == <<today, codecVars, queryVars, fileVars, vaultVars, restVars>>

(***************************** bounds **************************************)
MaxBody == 3        \* longest body (in tokens) of an enumerated input line
MaxTasks == 3       \* longest Task list handed to filter_tasks / sort_tasks
MaxContext == 1     \* most lines before, and after, the addressed line of a note
MaxCalls == 2       \* most mutations made on a note in one run

(************************** emoji tables ***********************************)
\* PRIORITY_EMOJI_MAP: priority name -> emoji (code point)
PRIORITY_EMOJI_MAP ==
    [p \in {"highest", "high", "low", "lowest"} |->
        CASE p = "highest" -> "U+23EB"
          [] p = "high"    -> "U+1F53C"
          [] p = "low"     -> "U+1F53D"
          [] p = "lowest"  -> "U+23EC"]

\* EMOJI_PRIORITY_MAP = {v: k for k, v in PRIORITY_EMOJI_MAP.items()}
EMOJI_PRIORITY_MAP ==
    [e \in {PRIORITY_EMOJI_MAP[p] : p \in DOMAIN PRIORITY_EMOJI_MAP} |->
        CHOOSE p \in DOMAIN PRIORITY_EMOJI_MAP : PRIORITY_EMOJI_MAP[p] = e]

Priorities == {"highest", "high", "normal", "low", "lowest"}

\* the date emoji written by format_task_line
START_EMOJI     == "U+1F6EB"
SCHEDULED_EMOJI == "U+23F3"
DUE_EMOJI       == "U+1F4C5"
DONE_EMOJI      == "U+2705"
CREATED_EMOJI   == "U+2795"
RECUR_EMOJI     == "U+1F501"

DateEmoji == {START_EMOJI, SCHEDULED_EMOJI, DUE_EMOJI, DONE_EMOJI, CREATED_EMOJI}

(****************************** tokens *************************************)
Word(w)        == [k |-> "word", s |-> w, d |-> <<>>]
Tag(w)         == [k |-> "tag",  s |-> w, d |-> <<>>]
PrioTok(e)     == [k |-> "prio", s |-> e, d |-> <<>>]
DateTok(e, dg) == [k |-> "date", s |-> e, d |-> dg]
RecTok         == [k |-> "rec",  s |-> RECUR_EMOJI, d |-> <<>>]

IsMeta(tok) == tok.k \in {"date", "prio", "rec"}

(******************************* dates *************************************)
NoDate == [year |-> 0, month |-> 0, day |-> 0]      \* None

IsLeap(y) == (y % 4 = 0) /\ ((y % 100 # 0) \/ (y % 400 = 0))

DaysInMonth(y, m) ==
    IF m = 2 THEN (IF IsLeap(y) THEN 29 ELSE 28)
    ELSE IF m \in {4, 6, 9, 11} THEN 30 ELSE 31

\* datetime.strptime(text, "%Y-%m-%d").date(); NoDate stands for ValueError
Strptime(dg) ==
    LET y == dg[1] * 1000 + dg[2] * 100 + dg[3] * 10 + dg[4]
        m == dg[5] * 10 + dg[6]
        d == dg[7] * 10 + dg[8]
    IN  IF y >= 1 /\ m >= 1 /\ m <= 12 /\ d >= 1 /\ d <= DaysInMonth(y, m)
        THEN [year |-> y, month |-> m, day |-> d]
        ELSE NoDate

\* date.strftime('%Y-%m-%d')
Strftime(dt) ==
    << dt.year \div 1000, (dt.year \div 100) % 10, (dt.year \div 10) % 10, dt.year % 10,
       dt.month \div 10, dt.month % 10, dt.day \div 10, dt.day % 10 >>

\* date < date
DateLT(a, b) ==
    \/ a.year < b.year
    \/ a.year = b.year /\ a.month < b.month
    \/ a.year = b.year /\ a.month = b.month /\ a.day < b.day

DateLE(a, b) == a = b \/ DateLT(a, b)

NextDay(dt) ==
    IF dt.day < DaysInMonth(dt.year, dt.month)
    THEN [dt EXCEPT !.day = dt.day + 1]
    ELSE IF dt.month < 12
         THEN [year |-> dt.year, month |-> dt.month + 1, day |-> 1]
         ELSE [year |-> dt.year + 1, month |-> 1, day |-> 1]

\* date + timedelta(days=n), n >= 0
RECURSIVE AddDays(_, _)
AddDays(dt, n) == IF n = 0 THEN dt ELSE AddDays(NextDay(dt), n - 1)

(******************************** lines ************************************)
\* A line of a file: leading indentation, the checkbox character ("" when
\* the line is not a checkbox item) and the tokens after the checkbox.
Line(ind, b, bd) == [indent |-> ind, box |-> b, body |-> bd]

\* TASK_CHECKBOX.match(line.strip()): the line is a checkbox item, a list
\* dash and a checkbox holding a blank or an x
TASK_CHECKBOX(ln) == ln.box \in {" ", "x", "X"}

\* str.lower() on the checkbox character
Lower(c) == IF c = "X" THEN "x" ELSE c

\* pattern.search(text) of a date pattern: index of the first token made of
\* the emoji followed by YYYY-MM-DD, 0 when there is none
SearchDate(text, emoji) ==
    LET hits == {i \in 1..Len(text) : text[i].k = "date" /\ text[i].s = emoji}
    IN  IF hits = {} THEN 0 ELSE CHOOSE i \in hits : \A j \in hits : i <= j

TASK_DONE(text)      == SearchDate(text, DONE_EMOJI)
TASK_DUE_DATE(text)  == SearchDate(text, DUE_EMOJI)
TASK_SCHEDULED(text) == SearchDate(text, SCHEDULED_EMOJI)
TASK_START(text)     == SearchDate(text, START_EMOJI)
TASK_CREATED(text)   == SearchDate(text, CREATED_EMOJI)

\* TASK_PRIORITY.search(text): first priority emoji
TASK_PRIORITY(text) ==
    LET hits == {i \in 1..Len(text) : text[i].k = "prio"}
    IN  IF hits = {} THEN 0 ELSE CHOOSE i \in hits : \A j \in hits : i <= j

\* TASK_RECURRENCE.search(text): first recurrence emoji followed by text
TASK_RECURRENCE(text) ==
    LET hits == {i \in 1..Len(text) :
                    /\ text[i].k = "rec"
                    /\ i < Len(text)
                    /\ ~IsMeta(text[i + 1])}
    IN  IF hits = {} THEN 0 ELSE CHOOSE i \in hits : \A j \in hits : i <= j

\* group(1) of the recurrence match at i: the text after the emoji, up to
\* the next metadata emoji or the end of the text
RecurrenceGroup(text, i) ==
    LET stops == {j \in (i + 1)..Len(text) : IsMeta(text[j])}
        last  == IF stops = {} THEN Len(text)
                 ELSE (CHOOSE j \in stops : \A h \in stops : j <= h) - 1
    IN  SubSeq(text, i + 1, last)

\* TAG_PATTERN.finditer(text): the tag names, in order
RECURSIVE TAG_PATTERN(_)
TAG_PATTERN(text) ==
    IF text = <<>> THEN <<>>
    ELSE IF Head(text).k = "tag" THEN <<Head(text).s>> \o TAG_PATTERN(Tail(text))
    ELSE TAG_PATTERN(Tail(text))

(******************************** Task *************************************)
Task(c, st, pr, due, sch, sta, don, cre, rec, ln, sf, tg) ==
    [content |-> c, status |-> st, priority |-> pr,
     due_date |-> due, scheduled_date |-> sch, start_date |-> sta,
     done_date |-> don, created_date |-> cre, recurrence |-> rec,
     line_number |-> ln, source_file |-> sf, tags |-> tg]

\* the working state of parse_task_line: remaining_text and metadata
Start(text) ==
    [text |-> text, done_date |-> NoDate, due_date |-> NoDate,
     scheduled_date |-> NoDate, start_date |-> NoDate, created_date |-> NoDate,
     priority |-> "normal", recurrence |-> <<>>]

\* one pass of the date loop of parse_task_line for the match at i (0: no
\* match): on a valid date the field is set and the text cut at the
\* match; on ValueError nothing changes
DateStep(st, field, i) ==
    IF i = 0 THEN st
    ELSE IF Strptime(st.text[i].d) = NoDate THEN st
    ELSE [st EXCEPT ![field] = Strptime(st.text[i].d),
                    !.text = SubSeq(st.text, 1, i - 1)]

\* the date loop of parse_task_line, in the order of its pattern list
DateLoop(st) ==
    LET SearchCreated(x)   == DateStep(x, "created_date", TASK_CREATED(x.text))
        SearchStart(x)     == SearchCreated(DateStep(x, "start_date", TASK_START(x.text)))
        SearchScheduled(x) ==
            SearchStart(DateStep(x, "scheduled_date", TASK_SCHEDULED(x.text)))
        SearchDue(x)       == SearchScheduled(DateStep(x, "due_date", TASK_DUE_DATE(x.text)))
    IN  SearchDue(DateStep(st, "done_date", TASK_DONE(st.text)))

\* a priority lookup keyed by the priority names instead of the emoji
PriorityOf_WrongMap(text, i) ==
    IF i = 0 THEN "normal"
    ELSE IF text[i].s \in DOMAIN PRIORITY_EMOJI_MAP
         THEN PRIORITY_EMOJI_MAP[text[i].s] ELSE "normal"

\* the priority of parse_task_line for the match at i (0: no match):
\* EMOJI_PRIORITY_MAP.get(emoji, "normal")
PriorityOf(text, i) ==
    IF i = 0 THEN "normal"
    ELSE IF text[i].s \in DOMAIN EMOJI_PRIORITY_MAP
         THEN EMOJI_PRIORITY_MAP[text[i].s] ELSE "normal"

\* "Extract priority": the priority is set and, on a match, the text cut
PriorityStep(st, i) ==
    [st EXCEPT !.priority = PriorityOf(st.text, i),
               !.text = IF i = 0 THEN st.text ELSE SubSeq(st.text, 1, i - 1)]

\* "Extract recurrence": on a match group(1) is kept and the text cut
RecurrenceStep(st, i) ==
    IF i = 0 THEN st
    ELSE [st EXCEPT !.recurrence = RecurrenceGroup(st.text, i),
                    !.text = SubSeq(st.text, 1, i - 1)]

\* the Task built from the final working state
Finish(st, status, line_number, source_file) ==
    Task(st.text, status, st.priority, st.due_date, st.scheduled_date,
         st.start_date, st.done_date, st.created_date, st.recurrence,
         line_number, source_file, TAG_PATTERN(st.text))

\* the metadata extraction of parse_task_line on task_content
Extract(text) ==
    LET Recur(x) == RecurrenceStep(x, TASK_RECURRENCE(x.text))
        Prio(x)  == Recur(PriorityStep(x, TASK_PRIORITY(x.text)))
    IN  Prio(DateLoop(Start(text)))

\* parse_task_line: <<>> for None, else <<Task>>
parse_task_line(ln, line_number, source_file) ==
    IF ~TASK_CHECKBOX(ln) THEN <<>>
    ELSE << Finish(Extract(ln.body),
                   IF Lower(ln.box) = "x" THEN "completed" ELSE "incomplete",
                   line_number, source_file) >>

\* the tokens format_task_line appends for one date field
DatePart(emoji, dt) == IF dt = NoDate THEN <<>> ELSE <<DateTok(emoji, Strftime(dt))>>

\* format_task_line
format_task_line(t) ==
    LET checkbox == IF t.status = "completed" THEN "x" ELSE " "
        prio == IF t.priority # "normal" /\ t.priority \in DOMAIN PRIORITY_EMOJI_MAP
                THEN <<PrioTok(PRIORITY_EMOJI_MAP[t.priority])>> ELSE <<>>
        rec  == IF t.recurrence # <<>> THEN <<RecTok>> \o t.recurrence ELSE <<>>
    IN  Line(0, checkbox,
             t.content \o prio
               \o DatePart(START_EMOJI, t.start_date)
               \o DatePart(SCHEDULED_EMOJI, t.scheduled_date)
               \o DatePart(DUE_EMOJI, t.due_date)
               \o DatePart(DONE_EMOJI, t.done_date)
               \o DatePart(CREATED_EMOJI, t.created_date)
               \o rec)

(*********************** inputs of the codec runs ***************************)
D1 == [year |-> 2025, month |-> 3, day |-> 1]
D2 == [year |-> 2025, month |-> 2, day |-> 28]
BadDigits == <<2, 0, 2, 5, 0, 2, 3, 0>>        \* 2025-02-30: matches the pattern, no such day

TaskDates == {NoDate, D1, D2}

\* Task objects handed to format_task_line: content without metadata tokens
InputTasks ==
    { Task(c, st, pr, due, sch, sta, don, cre, rec, 1, "A.md", TAG_PATTERN(c)) :
        c \in {<<Word("a")>>, <<Word("a"), Tag("t")>>},
        st \in {"incomplete", "completed"},
        pr \in Priorities,
        due \in TaskDates, sch \in TaskDates, sta \in {NoDate, D1},
        don \in {NoDate, D1}, cre \in {NoDate, D2},
        rec \in {<<>>, <<Word("every"), Word("day")>>} }

\* tokens an input line is made of
LineTokens ==
    {Word("a"), Tag("t"), RecTok,
     PrioTok(PRIORITY_EMOJI_MAP["highest"]), PrioTok(PRIORITY_EMOJI_MAP["low"]),
     DateTok(DUE_EMOJI, BadDigits)}
    \cup {DateTok(e, Strftime(D1)) : e \in DateEmoji}

RECURSIVE SeqsUpTo(_, _)
SeqsUpTo(S, n) ==
    IF n = 0 THEN {<<>>}
    ELSE LET shorter == SeqsUpTo(S, n - 1)
         IN  shorter \cup {Append(q, x) : q \in {r \in shorter : Len(r) = n - 1}, x \in S}

\* lines handed to parse_task_line
InputLines ==
    { Line(sh[1], sh[2], bd) :
        sh \in {<<0, " ">>, <<0, "x">>, <<0, "X">>, <<0, "">>, <<1, " ">>},
        bd \in SeqsUpTo(LineTokens, MaxBody) \ {<<>>} }

(****************************** codec runs **********************************)
\* a Task is formatted and the line parsed back, or a line is parsed and the
\* Task formatted back
QueryIdle == qtasks = <<>> /\ qop = "none" /\ qargs = <<>> /\ qresult = <<>>
FileIdle == file = <<>> /\ file0 = <<>> /\ calls = <<>> /\ exists = FALSE
VaultIdle == vault = [root |-> <<>>, files |-> <<>>] /\ scan = <<>>
ApiIdle ==
    host = [available |-> FALSE, accepts |-> FALSE] /\ requests = <<>> /\ reply = <<>>
GraphIdle == notes = <<>> /\ graph = <<>> /\ conns = <<>>
DiskIdle == disk = [lines |-> <<>>, linesep |-> "LF"] /\ procs = <<>> /\ log = <<>>
RestIdle == ApiIdle /\ GraphIdle /\ DiskIdle

CodecInit ==
    /\ today = D2
    /\ QueryIdle
    /\ FileIdle
    /\ VaultIdle
    /\ RestIdle
    /\ pc = "start"
    /\ line = <<>>
    /\ task = <<>>
    /\ \/ kind = "task" /\ t0 \in {<<t>> : t \in InputTasks} /\ l0 = <<>>
       \/ kind = "line" /\ l0 \in {<<ln>> : ln \in InputLines} /\ t0 = <<>>

FormatTaskLine ==
    /\ \/ kind = "task" /\ pc = "start"
       \/ kind = "line" /\ pc = "parsed" /\ task # <<>>
    /\ line' = <<format_task_line(IF kind = "task" THEN t0[1] ELSE task[1])>>
    /\ pc' = "formatted"
    /\ UNCHANGED <<today, kind, t0, l0, task, queryVars, fileVars, vaultVars, restVars>>

ParseTaskLine ==
    /\ \/ kind = "task" /\ pc = "formatted"
       \/ kind = "line" /\ pc = "start"
    /\ task' = parse_task_line(IF kind = "task" THEN line[1] ELSE l0[1], 1, "A.md")
    /\ pc' = "parsed"
    /\ UNCHANGED <<today, kind, t0, l0, line, queryVars, fileVars, vaultVars, restVars>>

CodecNext == FormatTaskLine \/ ParseTaskLine

SpecCodec == CodecInit /\ [][CodecNext]_vars

(************************* claims on the codec ******************************)
Range(q) == {q[i] : i \in 1..Len(q)}

\* the fields a round trip compares
SameFields(a, b) ==
    /\ a.content = b.content
    /\ a.status = b.status
    /\ a.priority = b.priority
    /\ a.start_date = b.start_date
    /\ a.scheduled_date = b.scheduled_date
    /\ a.due_date = b.due_date
    /\ a.done_date = b.done_date
    /\ a.created_date = b.created_date
    /\ a.recurrence = b.recurrence

\* C1: for every Task t whose content holds no metadata token, with any
\* combination of status, priority, the five dates and a recurrence that
\* begins with "every", parse_task_line(format_task_line(t)) equals t in
\* content, status, priority, all five dates and recurrence.
C1_RoundTrip ==
    (kind = "task" /\ pc = "parsed") =>
        (task # <<>> /\ SameFields(task[1], t0[1]))

\* the token at position i of a parsed line is kept in the content or has
\* been extracted into the field it stands for
Extracted(body, i, t) ==
    LET tok == body[i]
    IN  \/ tok \in Range(t.content)
        \/ tok \in Range(t.recurrence)
        \/ tok.k = "rec" /\ t.recurrence # <<>>
        \/ /\ tok.k = "prio"
           /\ tok.s \in DOMAIN EMOJI_PRIORITY_MAP
           /\ t.priority = EMOJI_PRIORITY_MAP[tok.s]
        \/ /\ tok.k = "date"
           /\ Strptime(tok.d) # NoDate
           /\ Strptime(tok.d) =
                CASE tok.s = DONE_EMOJI      -> t.done_date
                  [] tok.s = DUE_EMOJI       -> t.due_date
                  [] tok.s = SCHEDULED_EMOJI -> t.scheduled_date
                  [] tok.s = START_EMOJI     -> t.start_date
                  [] tok.s = CREATED_EMOJI   -> t.created_date

\* C2: each strip step of parse_task_line removes only its own matched
\* token: on a task line carrying metadata tokens in any order, no token
\* (or plain text) to the right of an earlier-stripped token is discarded;
\* every token of the line is extracted by its own step or kept in content.
C2_StripOnlyOwnToken ==
    (kind = "line" /\ pc = "parsed" /\ task # <<>>) =>
        \A i \in 1..Len(l0[1].body) : Extracted(l0[1].body, i, task[1])

\* a line '- [ ] <content> <priority emoji> <due emoji> <valid date>'
C3_Form(ln) ==
    LET n == Len(ln.body)
    IN  /\ ln.indent = 0
        /\ ln.box \in {" ", "x"}
        /\ n >= 3
        /\ \A i \in 1..(n - 2) : ~IsMeta(ln.body[i])
        /\ ln.body[n - 1].k = "prio"
        /\ ln.body[n].k = "date" /\ ln.body[n].s = DUE_EMOJI
        /\ Strptime(ln.body[n].d) # NoDate

\* what the claim says the parse of such a line is
C3_Expected(ln) ==
    LET n == Len(ln.body)
        c == SubSeq(ln.body, 1, n - 2)
    IN  Task(c, IF ln.box = "x" THEN "completed" ELSE "incomplete",
             EMOJI_PRIORITY_MAP[ln.body[n - 1].s], Strptime(ln.body[n].d),
             NoDate, NoDate, NoDate, NoDate, <<>>, 1, "A.md", TAG_PATTERN(c))

\* C3: for every line '- [ ] <content> <priority emoji> <due emoji> <valid
\* date>' (either checkbox state), parse_task_line yields that content,
\* priority, due date and status with every other field unset, and
\* format_task_line of the result reproduces the line exactly.
C3_ParseFormatScenario ==
    (kind = "line" /\ C3_Form(l0[1])) =>
        /\ pc \in {"parsed", "formatted"} => task = <<C3_Expected(l0[1])>>
        /\ pc = "formatted" => line = l0

C3_Witness ==
    /\ kind = "line" /\ pc = "formatted"
    /\ C3_Form(l0[1])
    /\ l0[1].box = "x"
    /\ task # <<>> /\ task[1].priority = "highest" /\ task[1].due_date = D1
    /\ line = l0

\* the date field of a Task that a date emoji stands for
DateFieldOf(t, emoji) ==
    CASE emoji = DONE_EMOJI      -> t.done_date
      [] emoji = DUE_EMOJI       -> t.due_date
      [] emoji = SCHEDULED_EMOJI -> t.scheduled_date
      [] emoji = START_EMOJI     -> t.start_date
      [] emoji = CREATED_EMOJI   -> t.created_date

\* the token at j matches a date pattern but holds no calendar date
InvalidDateAt(body, j) == body[j].k = "date" /\ Strptime(body[j].d) = NoDate

\* no token before j carries the emoji of the token at j
FirstOfItsEmoji(body, j) ==
    \A h \in 1..(j - 1) : ~(body[h].k = "date" /\ body[h].s = body[j].s)

\* C19: when a date token on a task line matches its pattern but is not a
\* valid calendar date, parse_task_line raises nothing, leaves that date
\* field unset, and the token's text remains part of the task's content,
\* whatever other metadata tokens stand on the line.
C19_InvalidDateStaysContent ==
    (kind = "line" /\ pc = "parsed" /\ TASK_CHECKBOX(l0[1])) =>
        /\ task # <<>>
        /\ \A j \in 1..Len(l0[1].body) :
              InvalidDateAt(l0[1].body, j) =>
                  /\ l0[1].body[j] \in Range(task[1].content)
                  /\ FirstOfItsEmoji(l0[1].body, j) =>
                        DateFieldOf(task[1], l0[1].body[j].s) = NoDate

(************************ filter_tasks, sort_tasks **************************)
None == "None"          \* an absent string argument
NoInt == <<>>           \* an absent int / bool argument; <<v>> when supplied

\* a due_before test that lets the bound itself through
DueBefore_Inclusive(t, due_before) == t.due_date # NoDate /\ DateLE(t.due_date, due_before)

\* a within-days test that leaves out the last day
DueWithin_Exclusive(t, due_within_days) ==
    LET cutoff_date == AddDays(today, due_within_days)
    IN  t.due_date # NoDate /\ DateLE(today, t.due_date)
                            /\ DateLT(t.due_date, cutoff_date)

\* the tests of the list comprehensions of filter_tasks
DueBefore(t, due_before) == t.due_date # NoDate /\ DateLT(t.due_date, due_before)
DueAfter(t, due_after)   == t.due_date # NoDate /\ DateLT(due_after, t.due_date)
DueWithin(t, due_within_days) ==
    LET cutoff_date == AddDays(today, due_within_days)
    IN  t.due_date # NoDate /\ DateLE(today, t.due_date)
                            /\ DateLE(t.due_date, cutoff_date)
ScheduledBefore(t, scheduled_before) ==
    t.scheduled_date # NoDate /\ DateLT(t.scheduled_date, scheduled_before)
ScheduledAfter(t, scheduled_after) ==
    t.scheduled_date # NoDate /\ DateLT(scheduled_after, t.scheduled_date)
ScheduledWithin(t, scheduled_within_days) ==
    LET cutoff_date == AddDays(today, scheduled_within_days)
    IN  t.scheduled_date # NoDate /\ DateLE(today, t.scheduled_date)
                                  /\ DateLE(t.scheduled_date, cutoff_date)

\* filter_tasks(tasks, **a): one pass per supplied criterion, in the
\* order of the code
filter_tasks(tasks, a) ==
    LET HasStatus(t)   == t.status = a.status
        HasPriority(t) == t.priority = a.priority
        DueB(t)        == DueBefore(t, a.due_before)
        DueA(t)        == DueAfter(t, a.due_after)
        DueW(t)        == DueWithin(t, a.due_within_days[1])
        SchB(t)        == ScheduledBefore(t, a.scheduled_before)
        SchA(t)        == ScheduledAfter(t, a.scheduled_after)
        SchW(t)        == ScheduledWithin(t, a.scheduled_within_days[1])
        Recurs(t)      == t.recurrence # <<>>
        RecursNot(t)   == t.recurrence = <<>>
        Tagged(t)      == a.tag \in Range(t.tags)
        f1  == IF a.status \notin {None, "", "all"} THEN SelectSeq(tasks, HasStatus) ELSE tasks
        f2  == IF a.priority \notin {None, ""} THEN SelectSeq(f1, HasPriority) ELSE f1
        f3  == IF a.due_before # NoDate THEN SelectSeq(f2, DueB) ELSE f2
        f4  == IF a.due_after # NoDate THEN SelectSeq(f3, DueA) ELSE f3
        f5  == IF a.due_within_days # NoInt THEN SelectSeq(f4, DueW) ELSE f4
        f6  == IF a.scheduled_before # NoDate THEN SelectSeq(f5, SchB) ELSE f5
        f7  == IF a.scheduled_after # NoDate THEN SelectSeq(f6, SchA) ELSE f6
        f8  == IF a.scheduled_within_days # NoInt THEN SelectSeq(f7, SchW) ELSE f7
        f9  == IF a.has_recurrence # NoInt
               THEN (IF a.has_recurrence[1] THEN SelectSeq(f8, Recurs)
                                            ELSE SelectSeq(f8, RecursNot))
               ELSE f8
        f10 == IF a.tag \notin {None, ""} THEN SelectSeq(f9, Tagged) ELSE f9
    IN  f10

\* order of the file names of the model under str comparison
FileRank == [f \in {"A.md", "B.md"} |-> IF f = "A.md" THEN 1 ELSE 2]

\* comparison of sort keys (tuples of integers, compared as Python tuples)
KeyLT(x, y) ==
    \E i \in 1..Len(x) : x[i] < y[i] /\ \A j \in 1..(i - 1) : x[j] = y[j]

\* list.sort / sorted with a key: stable, and with reverse=True elements
\* with equal keys still keep their original order
Sorted(seq, keys, reverse) ==
    LET Before(i, j) ==
            \/ IF reverse THEN KeyLT(keys[j], keys[i]) ELSE KeyLT(keys[i], keys[j])
            \/ keys[i] = keys[j] /\ i < j
        Pos(i) == 1 + Cardinality({j \in 1..Len(seq) : Before(j, i)})
    IN  [k \in 1..Len(seq) |-> seq[CHOOSE i \in 1..Len(seq) : Pos(i) = k]]

\* priority_order.index(p) for priority_order as written (0-based)
PriorityIndex(p) ==
    CASE p = "highest" -> 0
      [] p = "high"    -> 1
      [] p = "normal"  -> 2
      [] p = "low"     -> 3
      [] p = "lowest"  -> 4

HasDue(t) == t.due_date # NoDate
HasNoDue(t) == t.due_date = NoDate

\* a due-date sort that puts the dateless tasks first in both directions
SortByDueDate_DatelessFirst(tasks, reverse) ==
    LET tasks_with_due    == SelectSeq(tasks, HasDue)
        tasks_without_due == SelectSeq(tasks, HasNoDue)
        keys == [i \in 1..Len(tasks_with_due) |->
                    <<tasks_with_due[i].due_date.year,
                      tasks_with_due[i].due_date.month,
                      tasks_with_due[i].due_date.day>>]
    IN  tasks_without_due \o Sorted(tasks_with_due, keys, reverse)

\* a priority sort that also passes reverse to sorted()
SortByPriority_DoubleReverse(tasks, reverse) ==
    Sorted(tasks,
           [i \in 1..Len(tasks) |->
              <<IF reverse THEN 4 - PriorityIndex(tasks[i].priority)
                ELSE PriorityIndex(tasks[i].priority)>>],
           reverse)

\* sort_tasks, branch sort_by == "due_date"
SortByDueDate(tasks, reverse) ==
    LET tasks_with_due    == SelectSeq(tasks, HasDue)
        tasks_without_due == SelectSeq(tasks, HasNoDue)
        keys == [i \in 1..Len(tasks_with_due) |->
                    <<tasks_with_due[i].due_date.year,
                      tasks_with_due[i].due_date.month,
                      tasks_with_due[i].due_date.day>>]
        sorted_due == Sorted(tasks_with_due, keys, reverse)
    IN  IF ~reverse THEN sorted_due \o tasks_without_due
        ELSE tasks_without_due \o sorted_due

\* sort_tasks, branch sort_by == "priority": reversing priority_order
\* turns index i into 4 - i; the sort itself is never reversed
SortByPriority(tasks, reverse) ==
    Sorted(tasks,
           [i \in 1..Len(tasks) |->
              <<IF reverse THEN 4 - PriorityIndex(tasks[i].priority)
                ELSE PriorityIndex(tasks[i].priority)>>],
           FALSE)

\* sort_tasks(tasks, sort_by, sort_order)
sort_tasks(tasks, sort_by, sort_order) ==
    LET reverse == sort_order = "desc"
    IN  CASE sort_by = "due_date" -> SortByDueDate(tasks, reverse)
          [] sort_by = "priority" -> SortByPriority(tasks, reverse)
          [] sort_by = "file" ->
                Sorted(tasks,
                       [i \in 1..Len(tasks) |-> <<FileRank[tasks[i].source_file]>>],
                       reverse)
          [] sort_by = "line_number" ->
                Sorted(tasks,
                       [i \in 1..Len(tasks) |->
                          <<FileRank[tasks[i].source_file], tasks[i].line_number>>],
                       reverse)
          [] OTHER -> tasks

(************************* inputs of the queries ****************************)
D0 == [year |-> 2025, month |-> 2, day |-> 27]      \* the day before D2
D3 == [year |-> 2025, month |-> 3, day |-> 2]

Every == <<Word("every"), Word("day")>>

\* the Tasks a scan has found; today is D2
TaskPool ==
    { Task(<<Word("a"), Tag("t")>>, "incomplete", "high", D2, NoDate, NoDate,
           NoDate, NoDate, <<>>, 1, "A.md", <<"t">>),
      Task(<<Word("b")>>, "completed", "normal", D1, D2, NoDate,
           D0, NoDate, Every, 1, "B.md", <<>>),
      Task(<<Word("c")>>, "incomplete", "high", NoDate, D3, NoDate,
           NoDate, NoDate, <<>>, 2, "A.md", <<>>),
      Task(<<Word("d"), Tag("t")>>, "incomplete", "lowest", D0, D1, NoDate,
           NoDate, NoDate, Every, 2, "B.md", <<"t">>),
      Task(<<Word("e")>>, "completed", "highest", D3, D0, NoDate,
           NoDate, NoDate, <<>>, 3, "A.md", <<>>) }

NoFilter ==
    [status |-> None, priority |-> None, due_before |-> NoDate,
     due_after |-> NoDate, due_within_days |-> NoInt,
     scheduled_before |-> NoDate, scheduled_after |-> NoDate,
     scheduled_within_days |-> NoInt, has_recurrence |-> NoInt, tag |-> None]

\* values one criterion is called with
Criterion ==
    [status |-> {"incomplete", "completed", "all"},
     priority |-> {"high", "normal"},
     due_before |-> {D1, D2},
     due_after |-> {D0, D2},
     due_within_days |-> {<<0>>, <<1>>, <<2>>},
     scheduled_before |-> {D1},
     scheduled_after |-> {D0, D2},
     scheduled_within_days |-> {<<0>>, <<1>>},
     has_recurrence |-> {<<TRUE>>, <<FALSE>>},
     tag |-> {"t", "u"}]

\* the calls made: at most two criteria supplied at once
One(f) == {[NoFilter EXCEPT ![f] = v] : v \in Criterion[f]}
FilterArgs ==
    {NoFilter}
    \cup UNION {One(f) : f \in DOMAIN Criterion}
    \cup UNION { {[a EXCEPT ![fg[2]] = v] : a \in One(fg[1]), v \in Criterion[fg[2]]} :
                    fg \in {p \in (DOMAIN Criterion) \X (DOMAIN Criterion) : p[1] # p[2]} }

(******************************** queries ***********************************)
\* one query is one call of filter_tasks or sort_tasks on the scanned list
CodecIdle ==
    kind = "none" /\ t0 = <<>> /\ l0 = <<>> /\ line = <<>> /\ task = <<>> /\ pc = "idle"

QueryInit ==
    /\ today = D2
    /\ CodecIdle
    /\ FileIdle
    /\ VaultIdle
    /\ RestIdle
    /\ qtasks \in SeqsUpTo(TaskPool, MaxTasks)
    /\ qop = "none"
    /\ qargs = <<>>
    /\ qresult = <<>>

FilterTasks ==
    \E a \in FilterArgs :
        /\ qop = "none"
        /\ qop' = "filter"
        /\ qargs' = <<a>>
        /\ qresult' = filter_tasks(qtasks, a)
        /\ UNCHANGED <<today, codecVars, qtasks, fileVars, vaultVars, restVars>>

SortTasks ==
    \E sort_by \in {"due_date", "priority", "file", "line_number"},
       sort_order \in {"asc", "desc"} :
        /\ qop = "none"
        /\ qop' = "sort"
        /\ qargs' = <<[sort_by |-> sort_by, sort_order |-> sort_order]>>
        /\ qresult' = sort_tasks(qtasks, sort_by, sort_order)
        /\ UNCHANGED <<today, codecVars, qtasks, fileVars, vaultVars, restVars>>

QueryNext == FilterTasks \/ SortTasks

SpecQuery == QueryInit /\ [][QueryNext]_vars

(************************ claims on sort_tasks ******************************)
\* number of occurrences of x in q
Count(q, x) == Cardinality({i \in 1..Len(q) : q[i] = x})

IsPermutation(p, q) ==
    /\ Len(p) = Len(q)
    /\ \A x \in Range(p) \cup Range(q) : Count(p, x) = Count(q, x)

\* a date as one number, for comparisons in the claims
DateNum(dt) == dt.year * 10000 + dt.month * 100 + dt.day

SortedBy(by, order) ==
    qop = "sort" /\ qargs[1].sort_by = by /\ qargs[1].sort_order = order

DatelessLast(q) ==
    \A i \in 1..Len(q) : \A j \in 1..Len(q) :
        (HasNoDue(q[i]) /\ HasDue(q[j])) => j < i

\* C4: sort_tasks by due_date places every task without a due date after
\* every task with one in both directions; with sort_order = "desc" the
\* dated tasks are in non-increasing due-date order and the dateless tasks
\* still come last.
C4_DatelessLastBothDirections ==
    /\ (SortedBy("due_date", "asc") \/ SortedBy("due_date", "desc"))
          => DatelessLast(qresult)
    /\ SortedBy("due_date", "desc") =>
          \A i \in 1..Len(qresult) : \A j \in 1..Len(qresult) :
              (i < j /\ HasDue(qresult[i]) /\ HasDue(qresult[j]))
                  => DateNum(qresult[i].due_date) >= DateNum(qresult[j].due_date)

\* C5: sort_tasks by due_date ascending returns a permutation of its input
\* in which the dated tasks come first in non-decreasing due-date order and
\* all dateless tasks follow them, whatever the input order.
C5_AscendingDueDate ==
    SortedBy("due_date", "asc") =>
        /\ IsPermutation(qresult, qtasks)
        /\ DatelessLast(qresult)
        /\ \A i \in 1..Len(qresult) : \A j \in 1..Len(qresult) :
              (i < j /\ HasDue(qresult[i]) /\ HasDue(qresult[j]))
                  => DateNum(qresult[i].due_date) <= DateNum(qresult[j].due_date)

\* a dateless task came first and the dated ones were out of order
C5_Witness ==
    /\ SortedBy("due_date", "asc")
    /\ Len(qtasks) = 3
    /\ HasNoDue(qtasks[1]) /\ HasDue(qtasks[2]) /\ HasDue(qtasks[3])
    /\ DateNum(qtasks[2].due_date) > DateNum(qtasks[3].due_date)
    /\ qresult = <<qtasks[3], qtasks[2], qtasks[1]>>

\* the fixed rank, highest first
C6_RankOrder == <<"highest", "high", "normal", "low", "lowest">>
C6_Rank(p) == CHOOSE i \in 1..5 : C6_RankOrder[i] = p

\* the tasks of q that have priority p, in the order of q
C6_OfPriority(q, p) ==
    LET Is(t) == t.priority = p IN SelectSeq(q, Is)

\* C6: sort_tasks by priority orders tasks by the fixed rank highest > high
\* > normal > low > lowest: ascending puts highest first, descending puts
\* lowest first, and in both directions tasks of equal priority keep their
\* input order.
C6_PriorityOrder ==
    /\ SortedBy("priority", "asc") =>
          \A i \in 1..Len(qresult) : \A j \in 1..Len(qresult) :
              i < j => C6_Rank(qresult[i].priority) <= C6_Rank(qresult[j].priority)
    /\ SortedBy("priority", "desc") =>
          \A i \in 1..Len(qresult) : \A j \in 1..Len(qresult) :
              i < j => C6_Rank(qresult[i].priority) >= C6_Rank(qresult[j].priority)
    /\ (SortedBy("priority", "asc") \/ SortedBy("priority", "desc")) =>
          /\ Len(qresult) = Len(qtasks)
          /\ \A p \in Priorities : C6_OfPriority(qresult, p) = C6_OfPriority(qtasks, p)

\* descending: lowest first, and two distinct tasks of equal priority in
\* their input order after a task that stood between them
C6_Witness ==
    /\ SortedBy("priority", "desc")
    /\ Len(qtasks) = 3
    /\ qtasks[1].priority = "high" /\ qtasks[3].priority = "high"
    /\ qtasks[1] # qtasks[3]
    /\ qtasks[2].priority = "lowest"
    /\ qresult = <<qtasks[2], qtasks[1], qtasks[3]>>

(*********************** claims on filter_tasks *****************************)
\* t satisfies every criterion supplied in a
C7_Matches(t, a) ==
    /\ a.status \in {None, "all"} \/ t.status = a.status
    /\ a.priority = None \/ t.priority = a.priority
    /\ a.due_before = NoDate
          \/ (HasDue(t) /\ DateNum(t.due_date) < DateNum(a.due_before))
    /\ a.due_after = NoDate
          \/ (HasDue(t) /\ DateNum(t.due_date) > DateNum(a.due_after))
    /\ a.due_within_days = NoInt
          \/ /\ HasDue(t)
             /\ DateNum(today) <= DateNum(t.due_date)
             /\ DateNum(t.due_date) <= DateNum(AddDays(today, a.due_within_days[1]))
    /\ a.scheduled_before = NoDate
          \/ /\ t.scheduled_date # NoDate
             /\ DateNum(t.scheduled_date) < DateNum(a.scheduled_before)
    /\ a.scheduled_after = NoDate
          \/ /\ t.scheduled_date # NoDate
             /\ DateNum(t.scheduled_date) > DateNum(a.scheduled_after)
    /\ a.scheduled_within_days = NoInt
          \/ /\ t.scheduled_date # NoDate
             /\ DateNum(today) <= DateNum(t.scheduled_date)
             /\ DateNum(t.scheduled_date)
                    <= DateNum(AddDays(today, a.scheduled_within_days[1]))
    /\ a.has_recurrence = NoInt \/ (a.has_recurrence[1] <=> t.recurrence # <<>>)
    /\ a.tag = None \/ (\E i \in 1..Len(t.tags) : t.tags[i] = a.tag)

\* C7: filter_tasks returns, in input order, exactly the tasks that satisfy
\* every supplied criterion at once (before/after compare strictly); a task
\* lacking the relevant date is excluded by any before/after filter on that
\* date, and status = "all" or an absent criterion excludes nothing.
C7_ConjunctiveFilter ==
    qop = "filter" =>
        LET Keep(t) == C7_Matches(t, qargs[1])
        IN  qresult = SelectSeq(qtasks, Keep)

\* two criteria at once: one task passes both, one fails the status, one
\* has no due date
C7_Witness ==
    /\ qop = "filter"
    /\ qargs[1].status = "incomplete" /\ qargs[1].due_before = D1
    /\ Len(qtasks) = 3
    /\ qtasks[1].status = "completed" /\ HasDue(qtasks[1])
    /\ qtasks[2].status = "incomplete" /\ HasNoDue(qtasks[2])
    /\ qtasks[3].status = "incomplete" /\ HasDue(qtasks[3])
    /\ qresult = <<qtasks[3]>>

\* the dates today, today+1, ..., today+n
C8_Window(n) == {AddDays(today, k) : k \in 0..n}

\* C8: due_within_days = N and scheduled_within_days = N keep a task
\* exactly when its relevant date is set and lies in [today, today+N], both
\* bounds inclusive, including N = 0 (only tasks dated today).
C8_WithinDays ==
    /\ \A n \in 0..2 :
          (qop = "filter" /\ qargs[1] = [NoFilter EXCEPT !.due_within_days = <<n>>]) =>
              LET Keep(t) == t.due_date \in C8_Window(n)
              IN  qresult = SelectSeq(qtasks, Keep)
    /\ \A n \in 0..2 :
          (qop = "filter"
              /\ qargs[1] = [NoFilter EXCEPT !.scheduled_within_days = <<n>>]) =>
              LET Keep(t) == t.scheduled_date \in C8_Window(n)
              IN  qresult = SelectSeq(qtasks, Keep)

\* N = 0 keeps the task due today and drops the ones due the day before
\* and the day after
C8_Witness ==
    /\ qop = "filter"
    /\ qargs[1] = [NoFilter EXCEPT !.due_within_days = <<0>>]
    /\ Len(qtasks) = 3
    /\ qtasks[1].due_date = D1 /\ qtasks[2].due_date = today /\ qtasks[3].due_date = D0
    /\ qresult = <<qtasks[2]>>

(********************** toggle_task_status_fs_tool **************************)
\* the dictionary a mutation returns
Failure(msg) ==
    [success |-> FALSE, error |-> msg, new_status |-> None,
     done_date |-> NoDate, updated_line |-> <<>>]

ToggleSuccess(new_status, done_date, new_line) ==
    [success |-> TRUE, error |-> None, new_status |-> new_status,
     done_date |-> done_date, updated_line |-> <<new_line>>]

\* a toggle that forgets to clear the done date when reopening
ToggleDoneDate_KeepOnReopen(done_date, new_status, add_done_date) ==
    IF new_status = "completed" /\ add_done_date THEN today
    ELSE done_date

\* the done date after the toggle: today when completing on request, none
\* when reopening, else the one the task had
ToggleDoneDate(done_date, new_status, add_done_date) ==
    IF new_status = "completed" /\ add_done_date THEN today
    ELSE IF new_status = "incomplete" THEN NoDate
    ELSE done_date

\* toggle_task_status_fs_tool on the lines read from the note: the lines
\* written back (the lines read when nothing is written) and the result
toggle_task_status_fs_tool(lines, line_number, add_done_date) ==
    IF line_number < 1 \/ line_number > Len(lines)
    THEN [lines |-> lines, result |-> Failure("out of range")]
    ELSE
    LET parsed == parse_task_line(lines[line_number].text, line_number, "A.md")
    IN  IF parsed = <<>>
        THEN [lines |-> lines, result |-> Failure("Line is not a task")]
        ELSE
        LET new_status == IF parsed[1].status = "incomplete" THEN "completed"
                          ELSE "incomplete"
            done_date  == ToggleDoneDate(parsed[1].done_date, new_status, add_done_date)
            toggled    == [parsed[1] EXCEPT !.status = new_status,
                                            !.done_date = done_date]
            new_line   == format_task_line(toggled)
        IN  [lines  |-> [lines EXCEPT ![line_number] = [text |-> new_line, nl |-> TRUE]],
             result |-> ToggleSuccess(new_status, done_date, new_line)]

(************************* inputs of the mutations **************************)
\* task lines as format_task_line writes them
FormattedLines ==
    { format_task_line(
          Task(<<Word("a")>>, st, pr, due, NoDate, NoDate, don, NoDate, rec,
               1, "A.md", <<>>)) :
        st \in {"incomplete", "completed"}, pr \in {"normal", "highest"},
        due \in {NoDate, D1}, don \in {NoDate, D1}, rec \in {<<>>, Every} }

\* lines written by hand: other token orders, an upper-case checkbox, an
\* indented task, a done date that is no calendar date, a plain line
HandLines ==
    { Line(0, " ", <<Word("a"), RecTok, Word("every"), Word("day"),
                     DateTok(DUE_EMOJI, Strftime(D1))>>),
      Line(0, " ", <<Word("a"), DateTok(DUE_EMOJI, Strftime(D1)),
                     PrioTok(PRIORITY_EMOJI_MAP["high"])>>),
      Line(0, "X", <<Word("a"), DateTok(CREATED_EMOJI, Strftime(D2)),
                     DateTok(DONE_EMOJI, Strftime(D1))>>),
      Line(0, "x", <<Word("a"), DateTok(DONE_EMOJI, BadDigits),
                     DateTok(DONE_EMOJI, Strftime(D1))>>),
      Line(0, " ", <<Word("a"), DateTok(DONE_EMOJI, BadDigits)>>),
      Line(1, " ", <<Word("a"), Tag("t"), DateTok(START_EMOJI, Strftime(D1)),
                     DateTok(SCHEDULED_EMOJI, Strftime(D2))>>),
      Line(0, "", <<Word("a")>>) }

ContextLines == { Line(0, " ", <<Word("b")>>) }

\* the lines of a note whose texts are txt; the last one ends with a
\* newline when last_nl
RECURSIVE NoteOf(_, _)
NoteOf(txt, last_nl) ==
    IF txt = <<>> THEN <<>>
    ELSE <<[text |-> Head(txt), nl |-> (Len(txt) > 1 \/ last_nl)]>>
            \o NoteOf(Tail(txt), last_nl)

\* notes: an addressed line with up to MaxContext lines on either side; the
\* last line may lack its newline
Notes ==
    { NoteOf(before \o <<x>> \o after, last_nl) :
        before \in SeqsUpTo(ContextLines, MaxContext),
        x \in FormattedLines \cup HandLines,
        after \in SeqsUpTo(ContextLines, MaxContext),
        last_nl \in BOOLEAN }

(******************************* mutations **********************************)
MutationInit ==
    /\ today = D2
    /\ CodecIdle
    /\ QueryIdle
    /\ VaultIdle
    /\ RestIdle
    /\ \/ exists = TRUE /\ file \in Notes
       \/ exists = FALSE /\ file = <<>>
    /\ file0 = file
    /\ calls = <<>>

\* the calls made so far are all toggles
OnlyToggles == \A i \in 1..Len(calls) : calls[i].op = "toggle"

\* one call of toggle_task_status_fs_tool: read, toggle, write back; the
\* read of a note that does not exist raises, which the tool reports
ToggleTaskStatus ==
    \E line_number \in 0..(Len(file) + 1), add_done_date \in BOOLEAN :
        LET out == IF exists
                   THEN toggle_task_status_fs_tool(file, line_number, add_done_date)
                   ELSE [lines |-> file, result |-> Failure("No such file or directory")]
        IN  /\ Len(calls) < MaxCalls
            /\ OnlyToggles
            /\ file' = out.lines
            /\ calls' = Append(calls,
                   [op |-> "toggle", line_number |-> line_number,
                    add_done_date |-> add_done_date,
                    before |-> file, result |-> out.result])
            /\ UNCHANGED <<today, codecVars, queryVars, file0, exists, vaultVars, restVars>>

MutationNext == ToggleTaskStatus

SpecMutation == MutationInit /\ [][MutationNext]_vars

(******************* claims on toggle_task_status ***************************)
\* the note as call i left it
After(i) == IF i = Len(calls) THEN file ELSE calls[i + 1].before

\* the line call i addressed, before and after the call
OldLine(i) == calls[i].before[calls[i].line_number].text
NewLine(i) == After(i)[calls[i].line_number].text

Toggled(i) == calls[i].op = "toggle" /\ calls[i].result.success

Opposite(st) == IF st = "completed" THEN "incomplete" ELSE "completed"

IsDoneTok(tok) == tok.k = "date" /\ tok.s = DONE_EMOJI

\* C9: toggle_task_status writes the opposite status; completing with
\* add_done_date sets the done date to today, reopening removes the done
\* date, completing without add_done_date adds no done date; toggling the
\* same line twice returns the status to its original value.
C9_ToggleStatusAndDoneDate ==
    /\ \A i \in 1..Len(calls) :
          Toggled(i) =>
            LET old == parse_task_line(OldLine(i), 1, "A.md")[1]
                new == parse_task_line(NewLine(i), 1, "A.md")
                res == calls[i].result
            IN  /\ new # <<>>
                /\ new[1].status = Opposite(old.status)
                /\ res.new_status = new[1].status
                /\ (new[1].status = "completed" /\ calls[i].add_done_date) =>
                      /\ res.done_date = today
                      /\ DateTok(DONE_EMOJI, Strftime(today)) \in Range(NewLine(i).body)
                /\ new[1].status = "incomplete" =>
                      /\ res.done_date = NoDate
                      /\ new[1].done_date = NoDate
                /\ (new[1].status = "completed" /\ ~calls[i].add_done_date) =>
                      /\ res.done_date = old.done_date
                      /\ \A tok \in Range(NewLine(i).body) :
                            IsDoneTok(tok) => tok \in Range(OldLine(i).body)
    /\ \A i \in 1..(Len(calls) - 1) :
          (Toggled(i) /\ Toggled(i + 1)
              /\ calls[i].line_number = calls[i + 1].line_number) =>
            parse_task_line(NewLine(i + 1), 1, "A.md")[1].status
                = parse_task_line(OldLine(i), 1, "A.md")[1].status

\* a line completed with a done date of today, then reopened
C9_Witness ==
    /\ Len(calls) = 2
    /\ Toggled(1) /\ Toggled(2)
    /\ calls[1].line_number = calls[2].line_number
    /\ calls[1].add_done_date
    /\ calls[1].result.new_status = "completed"
    /\ calls[1].result.done_date = today
    /\ calls[2].result.new_status = "incomplete"
    /\ \A tok \in Range(NewLine(2).body) : ~IsDoneTok(tok)
    /\ OldLine(1).box = " " /\ NewLine(2).box = " "

\* C10: toggle_task_status changes only the status and the done date of
\* the addressed task: the content, priority, due/scheduled/start/created
\* dates and recurrence present on the line before the toggle are all
\* present with the same values on the rewritten line.
C10_ToggleKeepsOtherFields ==
    \A i \in 1..Len(calls) :
        Toggled(i) =>
            \A tok \in Range(OldLine(i).body) :
                ~IsDoneTok(tok) => tok \in Range(NewLine(i).body)

(********************* update_task_metadata_fs_tool *************************)
NoDigits == <<>>        \* a date argument that is None

\* the keys of `updates`; a key that is not in the dictionary maps to <<>>,
\* a key that is in it to <<value>>
NoUpdates ==
    [priority |-> <<>>, due_date |-> <<>>, scheduled_date |-> <<>>,
     start_date |-> <<>>, recurrence |-> <<>>]

\* str.lower() on the first word of a recurrence text
LowerWord(w) == IF w = "Every" THEN "every" ELSE w

\* a recurrence test that lets any text through
StartsWithEvery_AnyText(value) == value # <<>>

\* value and value.strip().lower().startswith("every")
StartsWithEvery(value) ==
    value # <<>> /\ LowerWord(value[1].s) \in {"every", "everyday"}

UpdateSuccess(new_line, changes_made) ==
    [success |-> TRUE, error |-> None, updated_line |-> <<new_line>>,
     changes_made |-> changes_made]

\* the working state of the update: the parsed Task, changes_made and the
\* exception raised so far (None: none)
UpdateStart(t) == [task |-> t, changes_made |-> <<>>, error |-> None]

\* 'if "priority" in updates': None resets to "normal", a name outside the
\* five is ignored
UpdatePriority(u, updates) ==
    IF updates.priority = <<>> THEN u
    ELSE IF updates.priority[1] = None
         THEN [u EXCEPT !.task.priority = "normal",
                        !.changes_made = Append(@, "priority")]
    ELSE IF updates.priority[1] \in Priorities
         THEN [u EXCEPT !.task.priority = updates.priority[1],
                        !.changes_made = Append(@, "priority")]
    ELSE u

\* a date update that passes over a string strptime rejects
UpdateDate_SkipInvalid(u, updates, date_field) ==
    IF u.error # None \/ updates[date_field] = <<>> THEN u
    ELSE IF updates[date_field][1] = NoDigits
         THEN [u EXCEPT !.task[date_field] = NoDate,
                        !.changes_made = Append(@, date_field)]
    ELSE IF Strptime(updates[date_field][1]) = NoDate
         THEN u
    ELSE [u EXCEPT !.task[date_field] = Strptime(updates[date_field][1]),
                   !.changes_made = Append(@, date_field)]

\* one pass of the loop over due_date, scheduled_date, start_date: a falsy
\* value unsets the field, a string strptime rejects raises ValueError
UpdateDate(u, updates, date_field) ==
    IF u.error # None \/ updates[date_field] = <<>> THEN u
    ELSE IF updates[date_field][1] = NoDigits
         THEN [u EXCEPT !.task[date_field] = NoDate,
                        !.changes_made = Append(@, date_field)]
    ELSE IF Strptime(updates[date_field][1]) = NoDate
         THEN [u EXCEPT !.error = "ValueError"]
    ELSE [u EXCEPT !.task[date_field] = Strptime(updates[date_field][1]),
                   !.changes_made = Append(@, date_field)]

\* 'if "recurrence" in updates': None unsets, a text that starts with
\* "every" is stored, any other value is passed over
UpdateRecurrence(u, updates) ==
    IF u.error # None \/ updates.recurrence = <<>> THEN u
    ELSE IF updates.recurrence[1] = <<>> \/ StartsWithEvery(updates.recurrence[1])
         THEN [u EXCEPT !.task.recurrence = updates.recurrence[1],
                        !.changes_made = Append(@, "recurrence")]
    ELSE u

\* "Apply updates", in the order of the code
ApplyUpdates(t, updates) ==
    LET Start_(x) == UpdateDate(x, updates, "start_date")
        Sched(x)  == Start_(UpdateDate(x, updates, "scheduled_date"))
        Due(x)    == Sched(UpdateDate(x, updates, "due_date"))
    IN  UpdateRecurrence(Due(UpdatePriority(UpdateStart(t), updates)), updates)

\* "Format and update": the line is replaced and the note written, unless
\* an exception was raised
WriteUpdate(lines, line_number, u) ==
    IF u.error # None
    THEN [lines |-> lines, result |-> Failure(u.error)]
    ELSE [lines  |-> [lines EXCEPT ![line_number] =
                         [text |-> format_task_line(u.task), nl |-> TRUE]],
          result |-> UpdateSuccess(format_task_line(u.task), u.changes_made)]

\* update_task_metadata_fs_tool on the lines read from the note: the lines
\* written back (the lines read when nothing is written) and the result
update_task_metadata_fs_tool(lines, line_number, updates) ==
    IF line_number < 1 \/ line_number > Len(lines)
    THEN [lines |-> lines, result |-> Failure("out of range")]
    ELSE IF parse_task_line(lines[line_number].text, line_number, "A.md") = <<>>
    THEN [lines |-> lines, result |-> Failure("Line is not a task")]
    ELSE WriteUpdate(lines, line_number,
             ApplyUpdates(parse_task_line(lines[line_number].text,
                                          line_number, "A.md")[1], updates))

\* the registered tool update_task_metadata_tool: `updates` holds the
\* arguments that are not None
ToolUpdates(priority, due_date, scheduled_date, start_date, recurrence) ==
    [priority       |-> IF priority # None THEN <<priority>> ELSE <<>>,
     due_date       |-> IF due_date # NoDigits THEN <<due_date>> ELSE <<>>,
     scheduled_date |-> IF scheduled_date # NoDigits THEN <<scheduled_date>> ELSE <<>>,
     start_date     |-> IF start_date # NoDigits THEN <<start_date>> ELSE <<>>,
     recurrence     |-> IF recurrence # <<>> THEN <<recurrence>> ELSE <<>>]

\* update_task_metadata_tool: an empty `updates` and a failure of the
\* filesystem tool are both raised as an error
update_task_metadata_tool(lines, line_number, updates) ==
    IF updates = NoUpdates
    THEN [lines  |-> lines,
          result |-> Failure("At least one metadata field must be provided for update")]
    ELSE update_task_metadata_fs_tool(lines, line_number, updates)

(************************* inputs of the updates ****************************)
MaxKeys == 2        \* most keys of one `updates` dictionary

D3Digits == Strftime(D3)

\* values one key of `updates` is given
UpdateValues ==
    [priority       |-> {None, "high", "urgent"},
     due_date       |-> {NoDigits, D3Digits, BadDigits},
     scheduled_date |-> {D3Digits},
     start_date     |-> {NoDigits},
     recurrence     |-> {<<>>, <<Word("Every"), Word("week")>>, <<Word("daily")>>}]

\* the dictionaries with at most n keys
RECURSIVE UpdatesUpTo(_)
UpdatesUpTo(n) ==
    IF n = 0 THEN {NoUpdates}
    ELSE LET fewer == UpdatesUpTo(n - 1)
         IN  fewer \cup
             UNION { UNION { {[u EXCEPT ![f] = <<v>>] : v \in UpdateValues[f]} :
                                f \in {g \in DOMAIN NoUpdates : u[g] = <<>>} } :
                        u \in fewer }

\* the dictionaries update_task_metadata_fs_tool is called with
UpdateArgs == UpdatesUpTo(MaxKeys)

\* the lines addressed: lines as format_task_line writes them, and lines
\* written by hand (an indented task with a tag, an upper-case checkbox
\* with a created and a done date, a line that is no task)
UpdateLines ==
    { format_task_line(
          Task(<<Word("a")>>, "incomplete", pr, due, NoDate, NoDate, NoDate,
               NoDate, rec, 1, "A.md", <<>>)) :
        pr \in {"normal", "highest"}, due \in {NoDate, D1}, rec \in {<<>>, Every} }
    \cup
    { Line(1, " ", <<Word("a"), Tag("t"), DateTok(START_EMOJI, Strftime(D1)),
                     DateTok(SCHEDULED_EMOJI, Strftime(D2))>>),
      Line(0, "X", <<Word("a"), DateTok(CREATED_EMOJI, Strftime(D2)),
                     DateTok(DONE_EMOJI, Strftime(D1))>>),
      Line(0, "", <<Word("a")>>) }

\* notes: an addressed line with up to MaxContext lines on either side
UpdateNotes ==
    { NoteOf(before \o <<x>> \o after, last_nl) :
        before \in SeqsUpTo(ContextLines, MaxContext),
        x \in UpdateLines,
        after \in SeqsUpTo(ContextLines, MaxContext),
        last_nl \in BOOLEAN }

(******************************** updates ***********************************)
\* a note on which toggles, or one update, are made
UpdateInit ==
    /\ today = D2
    /\ CodecIdle
    /\ QueryIdle
    /\ VaultIdle
    /\ RestIdle
    /\ \/ exists = TRUE /\ file \in UpdateNotes
       \/ exists = FALSE /\ file = <<>>
    /\ file0 = file
    /\ calls = <<>>

\* one call of update_task_metadata_fs_tool: read, update, write back
UpdateTaskMetadata ==
    \E line_number \in 0..(Len(file) + 1), updates \in UpdateArgs :
        LET out == IF exists
                   THEN update_task_metadata_fs_tool(file, line_number, updates)
                   ELSE [lines |-> file, result |-> Failure("No such file or directory")]
        IN  /\ calls = <<>>
            /\ file' = out.lines
            /\ calls' = <<[op |-> "update", line_number |-> line_number,
                           updates |-> updates, nulls |-> {},
                           before |-> file, result |-> out.result]>>
            /\ UNCHANGED <<today, codecVars, queryVars, file0, exists, vaultVars, restVars>>

\* one call of the registered tool update_task_metadata_tool; the arguments
\* are those its annotations let through (line_number >= 1, a priority
\* name, dates of the form YYYY-MM-DD, a recurrence 'every ...', or null)
UpdateTaskMetadataTool ==
    \E line_number \in 1..(Len(file) + 1),
       priority \in {None, "high"},
       due_date \in {NoDigits, D3Digits, BadDigits},
       scheduled_date \in {NoDigits, D3Digits},
       start_date \in {NoDigits},
       recurrence \in {<<>>, Every} :
        LET updates == ToolUpdates(priority, due_date, scheduled_date,
                                   start_date, recurrence)
            out == IF exists
                   THEN update_task_metadata_tool(file, line_number, updates)
                   ELSE [lines |-> file, result |-> Failure("No such file or directory")]
        IN  /\ calls = <<>>
            /\ file' = out.lines
            /\ calls' = <<[op |-> "update_tool", line_number |-> line_number,
                           updates |-> updates,
                           nulls |-> {f \in DOMAIN NoUpdates :
                                         [priority |-> priority = None,
                                          due_date |-> due_date = NoDigits,
                                          scheduled_date |-> scheduled_date = NoDigits,
                                          start_date |-> start_date = NoDigits,
                                          recurrence |-> recurrence = <<>>][f]},
                           before |-> file, result |-> out.result]>>
            /\ UNCHANGED <<today, codecVars, queryVars, file0, exists, vaultVars, restVars>>

UpdateNext == ToggleTaskStatus \/ UpdateTaskMetadata \/ UpdateTaskMetadataTool

SpecUpdate == UpdateInit /\ [][UpdateNext]_vars

(****************** claims on update_task_metadata **************************)
Updated(i) == calls[i].op \in {"update", "update_tool"} /\ calls[i].result.success

\* the field the token at position j of a line's body stands for: the
\* words between a recurrence emoji and the next metadata token belong to
\* the recurrence, every other word or tag to the content
FieldOf(body, j) ==
    CASE body[j].k = "prio" -> "priority"
      [] body[j].k = "rec" -> "recurrence"
      [] body[j].k = "date" /\ body[j].s = DUE_EMOJI -> "due_date"
      [] body[j].k = "date" /\ body[j].s = SCHEDULED_EMOJI -> "scheduled_date"
      [] body[j].k = "date" /\ body[j].s = START_EMOJI -> "start_date"
      [] body[j].k = "date" /\ body[j].s = DONE_EMOJI -> "done_date"
      [] body[j].k = "date" /\ body[j].s = CREATED_EMOJI -> "created_date"
      [] OTHER ->
            IF \E h \in 1..(j - 1) :
                  body[h].k = "rec" /\ \A g \in (h + 1)..j : ~IsMeta(body[g])
            THEN "recurrence" ELSE "content"

NamedIn(updates, f) == f \in DOMAIN updates /\ updates[f] # <<>>

StatusOf(ln) == IF ln.box \in {"x", "X"} THEN "completed" ELSE "incomplete"

\* C11: update_task_metadata changes only the fields named in `updates`:
\* the content, the status, the done date, the created date and every
\* metadata field not named stand on the rewritten line with the values
\* they had on the original line.
C11_UpdateChangesOnlyNamedFields ==
    \A i \in 1..Len(calls) :
        Updated(i) =>
            /\ StatusOf(NewLine(i)) = StatusOf(OldLine(i))
            /\ \A j \in 1..Len(OldLine(i).body) :
                  ~NamedIn(calls[i].updates, FieldOf(OldLine(i).body, j)) =>
                      OldLine(i).body[j] \in Range(NewLine(i).body)

\* C14: through the registered update_task_metadata tool, a null passed for
\* priority, due_date, scheduled_date, start_date or recurrence removes
\* that field from the task line: the rewritten line holds no token of it.
C14_NullRemovesField ==
    \A i \in 1..Len(calls) :
        (calls[i].op = "update_tool" /\ calls[i].result.success) =>
            \A j \in 1..Len(NewLine(i).body) :
                FieldOf(NewLine(i).body, j) \notin calls[i].nulls

\* a date string of `updates` that strptime rejects
MalformedDate(updates) ==
    \E f \in {"due_date", "scheduled_date", "start_date"} :
        /\ updates[f] # <<>>
        /\ updates[f][1] # NoDigits
        /\ Strptime(updates[f][1]) = NoDate

\* the call addresses no line of the note, or a line that is no checkbox
\* task, or (update) carries a malformed date string
C16_Rejected(i) ==
    \/ calls[i].line_number < 1
    \/ calls[i].line_number > Len(calls[i].before)
    \/ OldLine(i).box \notin {" ", "x", "X"}
    \/ calls[i].op \in {"update", "update_tool"} /\ MalformedDate(calls[i].updates)

C18_BadRecurrenceFails ==
    \A i \in 1..Len(calls) :
        ( /\ calls[i].op = "update"
          /\ calls[i].updates.recurrence # <<>>
          /\ calls[i].updates.recurrence[1] # <<>>
          /\ calls[i].updates.recurrence[1][1].s \notin {"every", "Every"} ) =>
            /\ ~calls[i].result.success
            /\ After(i) = calls[i].before

(***************** insert_task_in_file, create_task_fs_tool *****************)
\* a heading line ('#'s, blanks, the heading text) and an empty line; the
\* box of a heading is "#"
Heading(text) == Line(0, "#", text)
Blank == Line(0, "", <<>>)

\* the text of two list elements written without a line break between
\* them: the dash and checkbox of b stand glued to the last token of a
Glue(b) == [k |-> "glue", s |-> b.box, d |-> <<b.indent>>]
JoinLines(a, b) == Line(a.indent, a.box, a.body \o <<Glue(b)>> \o b.body)

\* "".join(lines) as splitlines(keepends=True) reads it back: an element
\* without a newline runs into the element after it
RECURSIVE JoinedLines(_)
JoinedLines(lines) ==
    IF Len(lines) < 2 THEN lines
    ELSE IF lines[1].nl THEN <<lines[1]>> \o JoinedLines(Tail(lines))
    ELSE JoinedLines(<<[text |-> JoinLines(lines[1].text, lines[2].text),
                        nl |-> lines[2].nl]>> \o Tail(Tail(lines)))

\* task_line + "\n"
WithNewline(task_line) == [text |-> task_line, nl |-> TRUE]

\* list.insert(index, x), index counted from 0: past the end it appends
ListInsert(lines, index, x) ==
    IF index >= Len(lines) THEN Append(lines, x)
    ELSE SubSeq(lines, 1, index) \o <<x>> \o SubSeq(lines, index + 1, Len(lines))

\* branches insert_at == "end" and insert_at == "top"
InsertAtEnd(lines, task_line) ==
    [lines |-> Append(lines, WithNewline(task_line)), line_number |-> Len(lines) + 1]
InsertAtTop(lines, task_line) ==
    [lines |-> <<WithNewline(task_line)>> \o lines, line_number |-> 1]

\* heading_pattern.search(content) for ^#+\s+<heading>\s*$ (MULTILINE):
\* the first line that is a heading with that text, 0 when there is none
HeadingSearch(lines, heading) ==
    LET hits == {i \in 1..Len(lines) :
                    lines[i].text.box = "#" /\ lines[i].text.body = heading}
    IN  IF hits = {} THEN 0 ELSE CHOOSE i \in hits : \A j \in hits : i <= j

\* content[: match.end()].count("\n") for the match on line i: the greedy
\* \s* runs over the line breaks of the empty lines after the heading and
\* stops before the last one, or at the end of the content
MatchEndNewlines(lines, i) ==
    LET rest == {j \in (i + 1)..Len(lines) : lines[j].text # Blank}
    IN  IF rest = {} THEN Cardinality({j \in 1..Len(lines) : lines[j].nl})
        ELSE (CHOOSE j \in rest : \A h \in rest : j <= h) - 2

\* an after_heading branch that gives up when no heading matches
InsertAfterHeading_FailOnMiss(lines, task_line, heading) ==
    IF HeadingSearch(lines, heading) # 0
    THEN [lines |-> ListInsert(lines,
                       MatchEndNewlines(lines, HeadingSearch(lines, heading)) + 1,
                       WithNewline(task_line)),
          line_number |-> MatchEndNewlines(lines, HeadingSearch(lines, heading)) + 2]
    ELSE [lines |-> lines, line_number |-> 0]

\* branch insert_at == "after_heading" and heading: insert at line_num + 1
\* and report line_num + 2; without a match append to the end
InsertAfterHeading(lines, task_line, heading) ==
    IF HeadingSearch(lines, heading) # 0
    THEN [lines |-> ListInsert(lines,
                       MatchEndNewlines(lines, HeadingSearch(lines, heading)) + 1,
                       WithNewline(task_line)),
          line_number |-> MatchEndNewlines(lines, HeadingSearch(lines, heading)) + 2]
    ELSE InsertAtEnd(lines, task_line)

\* the list and the line number of insert_task_in_file before the write
InsertBranch(lines, task_line, insert_at, heading) ==
    CASE insert_at = "end" -> InsertAtEnd(lines, task_line)
      [] insert_at = "top" -> InsertAtTop(lines, task_line)
      [] insert_at = "after_heading" /\ heading # <<>> ->
            InsertAfterHeading(lines, task_line, heading)
      [] OTHER -> InsertAtEnd(lines, task_line)

\* what write_text leaves on disk
WriteLines(ins) == [lines |-> JoinedLines(ins.lines), line_number |-> ins.line_number]

\* insert_task_in_file: the lines on disk afterwards and the line number
\* returned (0: None); a note that does not exist is created
insert_task_in_file(existed, lines, task_line, insert_at, heading) ==
    IF ~existed THEN [lines |-> <<WithNewline(task_line)>>, line_number |-> 1]
    ELSE WriteLines(InsertBranch(lines, task_line, insert_at, heading))

\* the dictionaries create_task_fs_tool returns; a ValueError it raises
CreateSuccess(task_line, line_number) ==
    [success |-> TRUE, error |-> None, task_line |-> <<task_line>>,
     line_number |-> line_number]
CreateFailure(task_line) ==
    [success |-> FALSE, error |-> "Failed to insert task", task_line |-> <<task_line>>,
     line_number |-> 0]
CreateRaised == 
    [success |-> FALSE, error |-> "ValueError", task_line |-> <<>>, line_number |-> 0]

\* "Validate dates", "Validate recurrence": some check raises ValueError
CreateRaises(a) ==
    \/ a.due_date # NoDigits /\ Strptime(a.due_date) = NoDate
    \/ a.scheduled_date # NoDigits /\ Strptime(a.scheduled_date) = NoDate
    \/ a.start_date # NoDigits /\ Strptime(a.start_date) = NoDate
    \/ a.recurrence # <<>> /\ ~StartsWithEvery(a.recurrence)

\* dates.get(field) after the validation
CreateDate(dg) == IF dg = NoDigits THEN NoDate ELSE Strptime(dg)

\* "Create Task object"
CreateTaskObject(a) ==
    Task(a.task_content, "incomplete", a.priority, CreateDate(a.due_date),
         CreateDate(a.scheduled_date), CreateDate(a.start_date), NoDate, NoDate,
         a.recurrence, 0, "A.md", <<>>)

\* the outcome of create_task_fs_tool once the line is inserted
CreateOutcome(existed, lines, task_line, ins) ==
    IF ins.line_number = 0
    THEN [exists |-> existed, lines |-> lines, result |-> CreateFailure(task_line)]
    ELSE [exists |-> TRUE, lines |-> ins.lines,
          result |-> CreateSuccess(task_line, ins.line_number)]

\* create_task_fs_tool on a note (existed: it is on disk, with these lines)
create_task_fs_tool(existed, lines, a) ==
    IF CreateRaises(a)
    THEN [exists |-> existed, lines |-> lines, result |-> CreateRaised]
    ELSE CreateOutcome(existed, lines, format_task_line(CreateTaskObject(a)),
             insert_task_in_file(existed, lines, format_task_line(CreateTaskObject(a)),
                                 a.insert_at, a.heading))

\* the registered tool create_task_tool hands its arguments on and raises
\* the failure of the filesystem tool as an error
create_task_tool(existed, lines, a) == create_task_fs_tool(existed, lines, a)

(************************* inputs of create_task ****************************)
MaxLines == 3       \* most lines of a note a task is created in

CreateLines == {Heading(<<Word("H")>>), Blank, Line(0, " ", <<Word("b")>>)}

\* notes of up to MaxLines lines; the last line may lack its newline
\* unless it is empty
CreateNotes ==
    { NoteOf(txt, last_nl) :
        txt \in SeqsUpTo(CreateLines, MaxLines), last_nl \in BOOLEAN }
    \ { note \in { NoteOf(txt, FALSE) : txt \in SeqsUpTo(CreateLines, MaxLines) } :
          note # <<>> /\ note[Len(note)].text = Blank }

CreateArgs ==
    [task_content : {<<Word("a")>>},
     priority : {"normal", "high"},
     due_date : {NoDigits, Strftime(D1), BadDigits},
     scheduled_date : {NoDigits, BadDigits},
     start_date : {NoDigits},
     recurrence : {<<>>, Every, <<Word("daily")>>},
     insert_at : {"end", "top", "after_heading"},
     heading : {<<>>, <<Word("H")>>, <<Word("Z")>>}]

\* the arguments the annotations of create_task_tool let through
CreateToolArgs ==
    {a \in CreateArgs : a.recurrence \in {<<>>, Every}}

(****************************** create_task *********************************)
CreateInit ==
    /\ today = D2
    /\ CodecIdle
    /\ QueryIdle
    /\ VaultIdle
    /\ RestIdle
    /\ \/ exists = TRUE /\ file \in CreateNotes
       \/ exists = FALSE /\ file = <<>>
    /\ file0 = file
    /\ calls = <<>>

\* one call of create_task_fs_tool
CreateTask ==
    \E a \in CreateArgs :
        LET out == create_task_fs_tool(exists, file, a)
        IN  /\ calls = <<>>
            /\ file' = out.lines
            /\ exists' = out.exists
            /\ calls' = <<[op |-> "create", args |-> a, existed |-> exists,
                           before |-> file, result |-> out.result]>>
            /\ UNCHANGED <<today, codecVars, queryVars, file0, vaultVars, restVars>>

\* one call of the registered tool create_task_tool
CreateTaskTool ==
    \E a \in CreateToolArgs :
        LET out == create_task_tool(exists, file, a)
        IN  /\ calls = <<>>
            /\ file' = out.lines
            /\ exists' = out.exists
            /\ calls' = <<[op |-> "create_tool", args |-> a, existed |-> exists,
                           before |-> file, result |-> out.result]>>
            /\ UNCHANGED <<today, codecVars, queryVars, file0, vaultVars, restVars>>

CreateNext == CreateTask \/ CreateTaskTool

SpecCreate == CreateInit /\ [][CreateNext]_vars

(************************ claims on create_task *****************************)
Created(i) == calls[i].op \in {"create", "create_tool"} /\ calls[i].result.success

\* C12: when create_task succeeds, the returned line_number is the 1-based
\* number of the line of the rewritten file that consists of exactly the
\* returned task_line, for insert_at end, top and after_heading (heading
\* matching or not), whether or not the file ended with a newline or the
\* heading was the file's last line.
C12_LineNumberAddressesTask ==
    \A i \in 1..Len(calls) :
        Created(i) =>
            /\ calls[i].result.line_number \in 1..Len(After(i))
            /\ After(i)[calls[i].result.line_number].text = calls[i].result.task_line[1]

\* the content of a note, character by character: for each line its
\* indentation and checkbox, its tokens and its line break
NL == [k |-> "nl", s |-> "", d |-> <<>>]
LineBytes(ln) ==
    <<[k |-> "bol", s |-> ln.box, d |-> <<ln.indent>>]>>
    \o [j \in 1..Len(ln.body) |->
          IF ln.body[j].k = "glue" THEN [ln.body[j] EXCEPT !.k = "bol"]
          ELSE ln.body[j]]
RECURSIVE Bytes(_)
Bytes(lines) ==
    IF lines = <<>> THEN <<>>
    ELSE LineBytes(Head(lines).text) \o (IF Head(lines).nl THEN <<NL>> ELSE <<>>)
            \o Bytes(Tail(lines))

\* no line of the note is a heading with this text
C13_NoMatch(lines, heading) ==
    \A j \in 1..Len(lines) :
        ~(lines[j].text.box = "#" /\ lines[j].text.body = heading)

\* C13: create_task with insert_at='after_heading' and a heading that
\* matches no heading line of the file does not fail: it appends the task
\* at the end of the file and reports success.
C13_HeadingMissAppends ==
    \A i \in 1..Len(calls) :
        ( /\ calls[i].op \in {"create", "create_tool"}
          /\ calls[i].existed
          /\ calls[i].args.insert_at = "after_heading"
          /\ calls[i].args.heading # <<>>
          /\ C13_NoMatch(calls[i].before, calls[i].args.heading)
          /\ calls[i].result.error # "ValueError" ) =>
            /\ calls[i].result.success
            /\ Bytes(After(i)) =
                  Bytes(calls[i].before)
                    \o LineBytes(calls[i].result.task_line[1]) \o <<NL>>

\* a task created after a heading the note does not have: the note has
\* another heading, and the task is its new last line
C13_Witness ==
    /\ Len(calls) = 1
    /\ calls[1].op = "create"
    /\ calls[1].args.insert_at = "after_heading"
    /\ calls[1].args.heading = <<Word("Z")>>
    /\ Len(file0) = 2
    /\ file0[1].text = Heading(<<Word("H")>>)
    /\ file0[2].nl
    /\ calls[1].result.success
    /\ calls[1].result.line_number = 3
    /\ file = file0 \o <<WithNewline(calls[1].result.task_line[1])>>

\* the arguments carry a recurrence that does not begin with 'every' or a
\* date string that is no calendar date
C17_Invalid(a) ==
    \/ a.recurrence # <<>> /\ a.recurrence[1].s \notin {"every", "Every"}
    \/ \E dg \in {a.due_date, a.scheduled_date, a.start_date} :
          dg # NoDigits /\ Strptime(dg) = NoDate

StartsWithDot(part) == part \in {".trash", ".vaults", ".."}

\* rglob("*.md") yields the files whose name ends in .md
IsMarkdown(f) == f.parts[Len(f.parts)] \in {"A.md", "B.md", "C.md"}

\* md_file.parts: the components of the vault path, then those below it
PartsOf(root, f) == root \o f.parts

\* any(part.startswith(".") for part in md_file.parts)
AnyPartHidden(parts) == \E i \in 1..Len(parts) : StartsWithDot(parts[i])

\* str(md_file.relative_to(vault_dir))
RECURSIVE RelativePath(_)
RelativePath(parts) ==
    IF Len(parts) = 1 THEN <<parts[1]>>
    ELSE <<parts[1], "/">> \o RelativePath(Tail(parts))

\* the loop over content.splitlines(): the Tasks of the lines from
\* line_num on
RECURSIVE FileTasks(_, _, _)
FileTasks(lines, line_num, relative_path) ==
    IF lines = <<>> THEN <<>>
    ELSE parse_task_line(Head(lines), line_num, relative_path)
            \o FileTasks(Tail(lines), line_num + 1, relative_path)

\* the loop over vault_dir.rglob("*.md"): a file with a hidden component
\* is passed over, a file whose read raises contributes nothing
RECURSIVE ScanFiles(_, _)
ScanFiles(root, files) ==
    IF files = <<>> THEN <<>>
    ELSE IF ~IsMarkdown(Head(files)) \/ AnyPartHidden(PartsOf(root, Head(files)))
         THEN ScanFiles(root, Tail(files))
    ELSE IF ~Head(files).readable THEN ScanFiles(root, Tail(files))
    ELSE FileTasks(Head(files).lines, 1, RelativePath(Head(files).parts))
            \o ScanFiles(root, Tail(files))

scan_vault_for_tasks(v) == ScanFiles(v.root, v.files)

\* the filters dictionary: a key that is not in it maps to <<>>, a key that
\* is in it to <<value>>; scheduled_on and content are keys the tool's
\* description names
NoFilters ==
    [status |-> <<>>, priority |-> <<>>, due_before |-> <<>>, due_after |-> <<>>,
     due_within_days |-> <<>>, scheduled_before |-> <<>>, scheduled_after |-> <<>>,
     scheduled_within_days |-> <<>>, has_recurrence |-> <<>>, tag |-> <<>>,
     scheduled_on |-> <<>>, content |-> <<>>]

DateKeys == {"due_before", "due_after", "scheduled_before", "scheduled_after"}

\* "Parse filters": strptime raises ValueError on one of the date strings
FiltersRaise(filters) ==
    \E key \in DateKeys : filters[key] # <<>> /\ Strptime(filters[key][1]) = NoDate

\* "Parse filters": filter_args, with the defaults of filter_tasks for the
\* keys that are not copied
FilterArg(filters, key) == IF filters[key] = <<>> THEN None ELSE filters[key][1]
FilterDate(filters, key) == IF filters[key] = <<>> THEN NoDate ELSE Strptime(filters[key][1])
ParseFilters(filters) ==
    [status                |-> FilterArg(filters, "status"),
     priority              |-> FilterArg(filters, "priority"),
     due_before            |-> FilterDate(filters, "due_before"),
     due_after             |-> FilterDate(filters, "due_after"),
     due_within_days       |-> filters.due_within_days,
     scheduled_before      |-> FilterDate(filters, "scheduled_before"),
     scheduled_after       |-> FilterDate(filters, "scheduled_after"),
     scheduled_within_days |-> filters.scheduled_within_days,
     has_recurrence        |-> filters.has_recurrence,
     tag                   |-> FilterArg(filters, "tag")]

\* date.isoformat() if date else None
IsoFormat(dt) == IF dt = NoDate THEN NoDigits ELSE Strftime(dt)

\* "Convert to dict representation"
TaskDict(t) ==
    [content |-> t.content, status |-> t.status, priority |-> t.priority,
     due_date |-> IsoFormat(t.due_date),
     scheduled_date |-> IsoFormat(t.scheduled_date),
     start_date |-> IsoFormat(t.start_date),
     done_date |-> IsoFormat(t.done_date),
     recurrence |-> t.recurrence, tags |-> t.tags,
     source_file |-> t.source_file, line_number |-> t.line_number]

\* sorted_tasks[:limit]
Take(tasks, limit) == SubSeq(tasks, 1, IF limit < Len(tasks) THEN limit ELSE Len(tasks))

\* the dictionary search_tasks_fs_tool returns; a ValueError it raises
SearchResult(sorted_tasks, limit) ==
    [success |-> TRUE, error |-> None,
     tasks |-> [i \in 1..Len(Take(sorted_tasks, limit)) |->
                    TaskDict(Take(sorted_tasks, limit)[i])],
     total_found |-> Len(sorted_tasks),
     truncated |-> Len(sorted_tasks) > limit]
SearchRaised ==
    [success |-> FALSE, error |-> "ValueError", tasks |-> <<>>,
     total_found |-> 0, truncated |-> FALSE]

\* search_tasks_fs_tool of tools/tasks.py; filters is <<>> (None) or
\* <<dictionary>>
search_tasks_fs_tool(v, filters, limit, sort_by, sort_order) ==
    IF filters # <<>> /\ FiltersRaise(filters[1]) THEN SearchRaised
    ELSE SearchResult(
             sort_tasks(
                 filter_tasks(scan_vault_for_tasks(v),
                              IF filters = <<>> \/ filters[1] = NoFilters THEN NoFilter
                              ELSE ParseFilters(filters[1])),
                 sort_by, sort_order),
             limit)

\* "Add scheduled_on to filters if provided"
WithScheduledOn(filters, scheduled_on) ==
    IF scheduled_on = NoDigits THEN filters
    ELSE IF filters = <<>> THEN <<[NoFilters EXCEPT !.scheduled_on = <<scheduled_on>>]>>
    ELSE <<[filters[1] EXCEPT !.scheduled_on = <<scheduled_on>>]>>

\* the registered tool search_tasks_fs_tool of server.py
registered_search_tasks_fs_tool(v, filters, limit, sort_by, sort_order, scheduled_on) ==
    search_tasks_fs_tool(v, WithScheduledOn(filters, scheduled_on),
                         limit, sort_by, sort_order)

(**************************** inputs of the scans ***************************)
MaxFiles == 2       \* most files of a vault

\* what a file holds: tasks scheduled on D1 and on D2 around a line that is
\* no task, or one task without a scheduled date
ScanContents ==
    { << Line(0, " ", <<Word("a"), DateTok(SCHEDULED_EMOJI, Strftime(D1))>>),
         Line(0, "", <<Word("x")>>),
         Line(1, "x", <<Word("b"), DateTok(SCHEDULED_EMOJI, Strftime(D2)),
                        DateTok(DUE_EMOJI, Strftime(D1))>>) >>,
      << Line(0, " ", <<Word("c"), PrioTok(PRIORITY_EMOJI_MAP["high"])>>) >> }

ScanFilePaths == {<<"A.md">>, <<"dir", "B.md">>, <<".trash", "C.md">>, <<"E.txt">>}

ScanFilePool ==
    [parts : ScanFilePaths, readable : BOOLEAN, lines : ScanContents]

\* the files of a vault in the order rglob yields them: no path twice
ScanFileLists ==
    { fs \in SeqsUpTo(ScanFilePool, MaxFiles) :
        \A i, j \in 1..Len(fs) : i # j => fs[i].parts # fs[j].parts }

\* the vault path as given: absolute, below a dot-directory, or relative
ScanRoots == {<<"home", "vault">>, <<"home", ".vaults", "main">>, <<"..", "vault">>}

SearchFilters ==
    { <<>>,
      <<[NoFilters EXCEPT !.status = <<"incomplete">>]>>,
      <<[NoFilters EXCEPT !.scheduled_after = <<Strftime(D0)>>]>>,
      <<[NoFilters EXCEPT !.scheduled_on = <<Strftime(D1)>>,
                          !.content = <<"a">>]>>,
      <<[NoFilters EXCEPT !.due_before = <<BadDigits>>]>> }

(********************************* scans ************************************)
ScanInit ==
    /\ today = D2
    /\ CodecIdle
    /\ QueryIdle
    /\ FileIdle
    /\ RestIdle
    /\ vault \in [root : ScanRoots, files : ScanFileLists]
    /\ scan = <<>>

\* one call of scan_vault_for_tasks
ScanVaultForTasks ==
    /\ scan = <<>>
    /\ scan' = <<[op |-> "scan", args |-> [vault_path |-> vault.root],
                  result |-> [tasks |-> scan_vault_for_tasks(vault)]]>>
    /\ UNCHANGED <<today, codecVars, queryVars, fileVars, vault, restVars>>

\* one call of the registered tool search_tasks_fs_tool
SearchTasksFs ==
    \E filters \in SearchFilters, limit \in {1, 100},
       sort_by \in {"due_date", "priority"}, sort_order \in {"asc"},
       scheduled_on \in {NoDigits, Strftime(D1), Strftime(D3)} :
        /\ scan = <<>>
        /\ scan' = <<[op |-> "search",
                      args |-> [filters |-> filters, limit |-> limit,
                                sort_by |-> sort_by, sort_order |-> sort_order,
                                scheduled_on |-> scheduled_on],
                      result |-> registered_search_tasks_fs_tool(
                                     vault, filters, limit, sort_by, sort_order,
                                     scheduled_on)]>>
        /\ UNCHANGED <<today, codecVars, queryVars, fileVars, vault, restVars>>

ScanNext == ScanVaultForTasks \/ SearchTasksFs

SpecScan == ScanInit /\ [][ScanNext]_vars

(*************************** claims on the scans ****************************)
\* C15: the registered search_tasks_fs tool called with scheduled_on=D
\* returns only tasks whose scheduled date equals D; tasks with another
\* scheduled date or none are excluded.
C15_ScheduledOnFilters ==
    (scan # <<>> /\ scan[1].op = "search"
        /\ scan[1].args.scheduled_on # NoDigits /\ scan[1].result.success) =>
        \A i \in 1..Len(scan[1].result.tasks) :
            scan[1].result.tasks[i].scheduled_date = scan[1].args.scheduled_on

\* the files of the vault that are readable markdown files with no hidden
\* component in their path below the vault root
C20_Scanned ==
    {i \in 1..Len(vault.files) :
        /\ vault.files[i].readable
        /\ vault.files[i].parts[Len(vault.files[i].parts)] \in {"A.md", "B.md", "C.md"}
        /\ \A p \in 1..Len(vault.files[i].parts) :
              vault.files[i].parts[p] \notin {".trash", ".vaults", ".."} }

\* the task lines of those files: file index and 1-based line number
C20_TaskLines ==
    {fl \in (1..Len(vault.files)) \X (1..3) :
        /\ fl[1] \in C20_Scanned
        /\ fl[2] <= Len(vault.files[fl[1]].lines)
        /\ vault.files[fl[1]].lines[fl[2]].box \in {" ", "x", "X"} }

\* C20: scan_vault_for_tasks never aborts on an unreadable file: it returns
\* exactly the tasks of all readable non-hidden markdown files, each with
\* its vault-relative path and 1-based line number, and nothing from the
\* unreadable ones.
C20_ScanSkipsUnreadable ==
    (scan # <<>> /\ scan[1].op = "scan") =>
        /\ Len(scan[1].result.tasks) = Cardinality(C20_TaskLines)
        /\ \A fl \in C20_TaskLines :
              \E i \in 1..Len(scan[1].result.tasks) :
                  scan[1].result.tasks[i] =
                      parse_task_line(vault.files[fl[1]].lines[fl[2]], fl[2],
                                      RelativePath(vault.files[fl[1]].parts))[1]

\* the file has a component, below the vault root, that begins with '.'
C21_HiddenBelowRoot(f) ==
    \E p \in 1..Len(f.parts) : f.parts[p] \in {".trash", ".vaults", ".."}

\* the scan returned a task of this file
C21_Processed(f) ==
    \E i \in 1..Len(scan[1].result.tasks) :
        scan[1].result.tasks[i].source_file = RelativePath(f.parts)

\* C21: scan_vault_for_tasks processes a markdown file exactly when no
\* component of its path relative to the vault root begins with '.'; the
\* components of the vault root's own path (a vault below a dot-directory,
\* a vault given as '../vault') have no influence on which files are scanned.
\* Stated on the readable markdown files, all of which hold a task: the scan
\* returns a task of the file exactly when the file is not hidden below the root.
C21_HiddenTestRelativeToRoot ==
    (scan # <<>> /\ scan[1].op = "scan") =>
        \A i \in 1..Len(vault.files) :
            (vault.files[i].readable /\ IsMarkdown(vault.files[i])) =>
                (C21_Processed(vault.files[i]) <=> ~C21_HiddenBelowRoot(vault.files[i]))

(****************** claims on the frame of the mutations ********************)
\* C28: toggle_task_status and update_task_metadata keep the leading
\* indentation of the addressed line: a task nested under another list item
\* by indentation is rewritten at the same indentation level.
C28_IndentationKept ==
    \A i \in 1..Len(calls) :
        (Toggled(i) \/ Updated(i)) => NewLine(i).indent = OldLine(i).indent

\* the texts of the lines of a note
Texts(lines) == [j \in 1..Len(lines) |-> lines[j].text]

\* a list without its element k
Without(q, k) == SubSeq(q, 1, k - 1) \o SubSeq(q, k + 1, Len(q))

\* C29: create_task on an existing file keeps every pre-existing line with
\* its text unchanged and in the same relative order and adds exactly one
\* new line holding the task; the task is never joined onto an existing
\* line, also when the file does not end with a newline.
C29_CreateAddsOneLine ==
    \A i \in 1..Len(calls) :
        (Created(i) /\ calls[i].existed) =>
            /\ Len(After(i)) = Len(calls[i].before) + 1
            /\ \E k \in 1..Len(After(i)) :
                  /\ After(i)[k].text = calls[i].result.task_line[1]
                  /\ Without(Texts(After(i)), k) = Texts(calls[i].before)

\* C30: create_task with insert_at='after_heading' and a matching heading
\* places the task on the line immediately following the first heading line
\* (in document order) whose text equals `heading`, also when that heading
\* is followed by one or more blank lines.
C30_TaskFollowsHeading ==
    \A i \in 1..Len(calls) :
        ( /\ Created(i)
          /\ calls[i].existed
          /\ calls[i].args.insert_at = "after_heading"
          /\ calls[i].args.heading # <<>>
          /\ ~C13_NoMatch(calls[i].before, calls[i].args.heading) ) =>
            LET h == HeadingSearch(calls[i].before, calls[i].args.heading)
            IN  /\ Len(After(i)) > h
                /\ After(i)[h].text = calls[i].before[h].text
                /\ After(i)[h + 1].text = calls[i].result.task_line[1]

(************* API tools: Dataview queries and commands *********************)
\* A string handed to an API tool is the sequence of its characters.
\* str.strip(): the blanks at both ends are removed
RECURSIVE LStrip(_)
LStrip(q) == IF q # <<>> /\ Head(q) = " " THEN LStrip(Tail(q)) ELSE q
RECURSIVE RStrip(_)
RStrip(q) ==
    IF q # <<>> /\ q[Len(q)] = " " THEN RStrip(SubSeq(q, 1, Len(q) - 1)) ELSE q
Strip(q) == RStrip(LStrip(q))

\* str.upper() on the letters of the queries
UpperChar(c) ==
    CASE c = "t" -> "T" [] c = "a" -> "A" [] c = "b" -> "B"
      [] c = "l" -> "L" [] c = "e" -> "E" [] OTHER -> c
Upper(q) == [i \in 1..Len(q) |-> UpperChar(q[i])]

\* str.startswith(prefix)
StartsWith(q, prefix) == Len(q) >= Len(prefix) /\ SubSeq(q, 1, Len(prefix)) = prefix

TABLE == <<"T", "A", "B", "L", "E">>

\* a validation that lets every query keyword of Dataview through
validate_dql_query_AnyKeyword(query) ==
    \/ StartsWith(Upper(Strip(query)), TABLE)
    \/ StartsWith(Upper(Strip(query)), <<"L", "I", "S", "T">>)
    \/ StartsWith(Upper(Strip(query)), <<"T", "A", "S", "K">>)

\* validate_dql_query: the stripped query starts with TABLE in any case and
\* has at least 5 characters
validate_dql_query(query) ==
    IF ~StartsWith(Upper(Strip(query)), TABLE) THEN FALSE
    ELSE IF Len(Strip(query)) < 5 THEN FALSE
    ELSE TRUE

\* the outcome of a call: what was raised ("None": nothing) with its
\* message, the value returned (<<>> or <<value>>), the requests sent
Returned(value, sent) ==
    [raised |-> None, message |-> None, value |-> <<value>>, sent |-> sent]
Raised(what, message, sent) ==
    [raised |-> what, message |-> message, value |-> <<>>, sent |-> sent]

\* ObsidianAPIClient.is_available: GET / answered with status 200
IsAvailableRequest == [method |-> "GET", path |-> "/", data |-> <<>>]
is_available(h) == h.available

\* require_api_available of utils/api_availability: asks the client whether
\* the host answers and raises when it does not
require_api_available(h) ==
    IF is_available(h) THEN Returned(TRUE, <<IsAvailableRequest>>)
    ELSE Raised("McpError", "API unavailable", <<IsAvailableRequest>>)

\* response.json() of a request the host accepted
HostResult(request) == [status |-> 200, of |-> request.path]

\* client.post(...); response.raise_for_status(); return response.json()
Post(h, request) ==
    IF h.accepts THEN Returned(HostResult(request), <<request>>)
    ELSE Raised("HTTPStatusError", "status 4xx", <<request>>)

\* ObsidianAPIClient.execute_dataview_query: POST /search/ with the query
\* as the body
client_execute_dataview_query(h, query) ==
    Post(h, [method |-> "POST", path |-> "/search/", data |-> query])

\* `except Exception as e: raise create_error(...)` around a client call
WrapException(out, message) ==
    IF out.raised = None THEN out ELSE Raised("McpError", message, out.sent)

\* a step made after the steps of `before`: nothing when `before` raised
Then(before, out) ==
    IF before.raised # None THEN before
    ELSE [out EXCEPT !.sent = before.sent \o out.sent]

\* execute_dataview_query of tools/dataview_api.py
execute_dataview_query(h, query) ==
    Then(require_api_available(h),
         WrapException(client_execute_dataview_query(h, query),
                       "Dataview query failed"))

\* the dictionary execute_dataview_query_api_tool returns
DataviewSuccess(query, out) ==
    IF out.raised # None THEN out
    ELSE Returned([query |-> query, success |-> TRUE, results |-> out.value[1]],
                  out.sent)

\* execute_dataview_query_api_tool
execute_dataview_query_api_tool(h, query) ==
    IF ~validate_dql_query(query)
    THEN Raised("ValueError", "Invalid DQL query syntax", <<>>)
    ELSE DataviewSuccess(query, execute_dataview_query(h, query))

\* the registered tool execute_dataview_query_tool: the annotation of
\* `query` asks for at least 4 characters; a ValueError is raised again as
\* an error with the same message
execute_dataview_query_tool(h, query) ==
    IF Len(query) < 4
    THEN Raised("ValidationError", "String should have at least 4 characters", <<>>)
    ELSE LET out == execute_dataview_query_api_tool(h, query)
         IN  IF out.raised = "ValueError"
             THEN Raised("McpError", out.message, out.sent)
             ELSE out

\* ObsidianAPIClient.execute_command(self, command_id): POST
\* /commands/<command_id>/; `positional` are the arguments of the call
\* after self, and a call with another number of them raises TypeError
\* before anything is sent
client_execute_command(h, positional) ==
    IF Len(positional) # 1
    THEN Raised("TypeError", "takes 2 positional arguments but 3 were given", <<>>)
    ELSE Post(h, [method |-> "POST", path |-> "/commands/", data |-> positional[1]])

\* execute_command of tools/commands.py: client.execute_command(command_id, args)
execute_command(h, command_id, args) ==
    Then(require_api_available(h),
         WrapException(client_execute_command(h, <<command_id, args>>),
                       "Command execution failed"))

\* execute_command_api_tool
execute_command_api_tool(h, command_id, args) ==
    LET out == execute_command(h, command_id, args)
    IN  IF out.raised # None THEN out
        ELSE Returned([success |-> TRUE, command_id |-> command_id,
                       args |-> args, result |-> out.value[1]], out.sent)

\* the registered tool execute_command_tool: execute_command_api_tool(command_id, None)
execute_command_tool(h, command_id) == execute_command_api_tool(h, command_id, <<>>)

(************************* inputs of the API tools **************************)
Queries ==
    { <<"T", "A", "B", "L", "E", " ", "f">>,
      <<"t", "a", "b", "l", "e", " ", "f">>,
      <<" ", "T", "a", "b", "l", "e", " ">>,
      <<"T", "A", "B", "L", "E">>,
      <<"T", "A", "B", "L", "E", "A", "U">>,
      <<"L", "I", "S", "T", " ", "f">>,
      <<"T", "A", "S", "K">>,
      <<"C", "A", "L", "E", "N", "D", "A", "R">>,
      <<"x", "T", "A", "B", "L", "E">>,
      <<"T", "A", "B", "L">>,
      <<" ", " ">>,
      <<>> }

CommandIds == {"editor:toggle-bold", "app:reload"}
CommandArgs == {<<>>, <<[line |-> 1]>>}

MaxApiCalls == 2    \* most API tool calls of one run

(******************************* API calls **********************************)
ApiInit ==
    /\ today = D2
    /\ CodecIdle
    /\ QueryIdle
    /\ FileIdle
    /\ VaultIdle
    /\ GraphIdle
    /\ DiskIdle
    /\ host \in [available : BOOLEAN, accepts : BOOLEAN]
    /\ requests = <<>>
    /\ reply = <<>>

\* the record of a call of an API tool
ReplyOf(tool, args, out) ==
    [tool |-> tool, args |-> args, raised |-> out.raised,
     message |-> out.message, value |-> out.value, sent |-> out.sent]

ExecuteDataviewQueryApiTool ==
    \E query \in Queries :
        LET out == execute_dataview_query_api_tool(host, query)
        IN  /\ Len(reply) < MaxApiCalls
            /\ reply' = Append(reply, ReplyOf("execute_dataview_query_api_tool",
                                  [query |-> query], out))
            /\ requests' = requests \o out.sent
            /\ UNCHANGED <<today, codecVars, queryVars, fileVars, vaultVars, host,
                           graphVars, diskVars>>

ExecuteDataviewQueryTool ==
    \E query \in Queries :
        LET out == execute_dataview_query_tool(host, query)
        IN  /\ Len(reply) < MaxApiCalls
            /\ reply' = Append(reply, ReplyOf("execute_dataview_query_tool",
                                  [query |-> query], out))
            /\ requests' = requests \o out.sent
            /\ UNCHANGED <<today, codecVars, queryVars, fileVars, vaultVars, host,
                           graphVars, diskVars>>

ExecuteCommandApiTool ==
    \E command_id \in CommandIds, args \in CommandArgs :
        LET out == execute_command_api_tool(host, command_id, args)
        IN  /\ Len(reply) < MaxApiCalls
            /\ reply' = Append(reply, ReplyOf("execute_command_api_tool",
                                  [command_id |-> command_id, args |-> args], out))
            /\ requests' = requests \o out.sent
            /\ UNCHANGED <<today, codecVars, queryVars, fileVars, vaultVars, host,
                           graphVars, diskVars>>

ExecuteCommandTool ==
    \E command_id \in CommandIds :
        LET out == execute_command_tool(host, command_id)
        IN  /\ Len(reply) < MaxApiCalls
            /\ reply' = Append(reply, ReplyOf("execute_command_tool",
                                  [command_id |-> command_id, args |-> <<>>], out))
            /\ requests' = requests \o out.sent
            /\ UNCHANGED <<today, codecVars, queryVars, fileVars, vaultVars, host,
                           graphVars, diskVars>>

ApiNext ==
    \/ ExecuteDataviewQueryApiTool
    \/ ExecuteDataviewQueryTool
    \/ ExecuteCommandApiTool
    \/ ExecuteCommandTool

SpecApi == ApiInit /\ [][ApiNext]_vars

(************************* claims on the API tools **************************)
\* call i sent the query to the host
Forwarded(i) ==
    \E r \in 1..Len(reply[i].sent) :
        reply[i].sent[r].path = "/search/" /\ reply[i].sent[r].data = reply[i].args.query

\* the trimmed query begins with TABLE, in any case
BeginsWithTable(query) ==
    /\ Len(Strip(query)) >= 5
    /\ \A i \in 1..5 : Strip(query)[i] \in {TABLE[i], <<"t", "a", "b", "l", "e">>[i]}

C24_CommandSucceeds ==
    \A i \in 1..Len(reply) :
        reply[i].tool \in {"execute_command_api_tool", "execute_command_tool"} =>
            /\ (host.available /\ host.accepts) =>
                  /\ reply[i].raised = None
                  /\ reply[i].value # <<>>
                  /\ reply[i].value[1].success
                  /\ reply[i].value[1].command_id = reply[i].args.command_id
                  /\ reply[i].value[1].args = reply[i].args.args
            /\ reply[i].raised # None => (~host.available \/ ~host.accepts)

(******************* link graph, get_note_connections ***********************)
\* The link tools of server.py hand their arguments to get_link_graph_fs_tool
\* and get_note_connections_fs_tool, which are not part of the sources at
\* hand; the graph builder and the connection query follow section 4.4 of
\* the specification.  A note is [name, links], links being the targets of
\* its links in the order they stand in the text.
NoteNames(ns) == {ns[i].name : i \in 1..Len(ns)}

\* the nodes of the graph: the notes and every target referenced
Nodes(ns) == NoteNames(ns) \cup UNION {Range(ns[i].links) : i \in 1..Len(ns)}

\* the graph before the pass
EmptyGraph(ns) ==
    [outlinks |-> [n \in Nodes(ns) |-> <<>>],
     backlinks |-> [n \in Nodes(ns) |-> <<>>],
     broken |-> <<>>]

\* an edge whose target is not indexed when it is no note of the vault
AddEdge_DropBrokenBacklink(g, ns, source, target) ==
    [outlinks |-> [g.outlinks EXCEPT ![source] = Append(@, target)],
     backlinks |-> IF target \in NoteNames(ns)
                   THEN [g.backlinks EXCEPT ![target] = Append(@, source)]
                   ELSE g.backlinks,
     broken |-> IF target \in NoteNames(ns) THEN g.broken
                ELSE Append(g.broken, [source |-> source, target |-> target])]

\* one extracted target becomes an outgoing edge of its note; the reverse
\* index receives the inverted edge; a target that is no note of the vault
\* is recorded as broken
AddEdge(g, ns, source, target) ==
    [outlinks |-> [g.outlinks EXCEPT ![source] = Append(@, target)],
     backlinks |-> [g.backlinks EXCEPT ![target] = Append(@, source)],
     broken |-> IF target \in NoteNames(ns) THEN g.broken
                ELSE Append(g.broken, [source |-> source, target |-> target])]

\* the edges of one note, in the order of its links
RECURSIVE AddNote(_, _, _, _)
AddNote(g, ns, source, links) ==
    IF links = <<>> THEN g
    ELSE AddNote(AddEdge(g, ns, source, Head(links)), ns, source, Tail(links))

\* the single pass over the notes of the vault
RECURSIVE BuildPass(_, _, _)
BuildPass(g, ns, rest) ==
    IF rest = <<>> THEN g
    ELSE BuildPass(AddNote(g, ns, Head(rest).name, Head(rest).links), ns, Tail(rest))

get_link_graph_fs_tool(ns) == BuildPass(EmptyGraph(ns), ns, ns)

\* the registered tool get_link_graph_tool returns the result as it is
get_link_graph_tool(ns) == get_link_graph_fs_tool(ns)

\* the nodes one step away from a set of nodes, along outgoing edges only
Neighbours_OutgoingOnly(g, frontier) ==
    UNION {Range(g.outlinks[n]) : n \in frontier}

\* the nodes one step away from a set of nodes, along outgoing and
\* incoming edges
Neighbours(g, frontier) ==
    UNION {Range(g.outlinks[n]) \cup Range(g.backlinks[n]) : n \in frontier}

\* breadth-first expansion: `found` are the labelled nodes, `visited` the
\* nodes reached so far, `frontier` the layer reached last, `layer` its depth
RECURSIVE Expand(_, _, _, _, _, _)
Expand(g, found, visited, frontier, layer, depth) ==
    IF layer >= depth \/ frontier = {} THEN found
    ELSE LET next == Neighbours(g, frontier) \ visited
         IN  Expand(g, found \cup {[note |-> n, depth |-> layer + 1] : n \in next},
                    visited \cup next, next, layer + 1, depth)

get_note_connections_fs_tool(g, note_name, depth) ==
    Expand(g, {}, {note_name}, {note_name}, 0, depth)

\* the registered tool get_note_connections_tool: depth is 1, 2 or 3
MaxDepth == 3
get_note_connections_tool(g, note_name, depth) ==
    get_note_connections_fs_tool(g, note_name, depth)

(************************** inputs of the graph *****************************)
MaxLinks == 1       \* most links of one note

VaultNotes == <<"A", "B", "C">>
Targets == {"A", "B", "C", "Z"}     \* Z: no note of the vault
LinkLists == SeqsUpTo(Targets, MaxLinks)

(******************************* link graph *********************************)
GraphInit ==
    /\ today = D2
    /\ CodecIdle
    /\ QueryIdle
    /\ FileIdle
    /\ VaultIdle
    /\ ApiIdle
    /\ DiskIdle
    /\ notes \in { [i \in 1..Len(VaultNotes) |-> [name |-> VaultNotes[i], links |-> ls[i]]] :
                      ls \in [1..Len(VaultNotes) -> LinkLists] }
    /\ graph = <<>>
    /\ conns = <<>>

\* one call of get_link_graph_tool
GetLinkGraph ==
    /\ graph = <<>>
    /\ graph' = <<get_link_graph_tool(notes)>>
    /\ UNCHANGED <<today, codecVars, queryVars, fileVars, vaultVars, apiVars,
                   notes, conns, diskVars>>

\* calls of get_note_connections_tool on the graph of the vault: one note
\* explored at depth 1, then 2, then 3
GetNoteConnections ==
    \E note_name \in NoteNames(notes) :
        /\ graph # <<>>
        /\ Len(conns) < MaxDepth
        /\ conns # <<>> => note_name = conns[1].note
        /\ conns' = Append(conns,
               [note |-> note_name, depth |-> Len(conns) + 1,
                result |-> get_note_connections_tool(graph[1], note_name,
                                                     Len(conns) + 1)])
        /\ UNCHANGED <<today, codecVars, queryVars, fileVars, vaultVars, apiVars,
                       notes, graph, diskVars>>

GraphNext == GetLinkGraph \/ GetNoteConnections

SpecGraph == GraphInit /\ [][GraphNext]_vars

(************************ claims on the link graph **************************)
\* note A has a link to B
LinksTo(a, b) ==
    \E i \in 1..Len(notes) : notes[i].name = a /\ b \in Range(notes[i].links)

\* C25: in the link graph built by one full-vault pass, for all notes A and
\* B an outgoing edge A->B is recorded if and only if A appears in the
\* backlink index of B, including when B is a broken (non-existent) target.
C25_EdgeIffBacklink ==
    graph # <<>> =>
        /\ DOMAIN graph[1].backlinks = Nodes(notes)
        /\ \A a \in NoteNames(notes), b \in Nodes(notes) :
              /\ (b \in Range(graph[1].outlinks[a])) <=> (a \in Range(graph[1].backlinks[b]))
              /\ (b \in Range(graph[1].outlinks[a])) <=> LinksTo(a, b)

\* A links to the missing note Z and to nothing else: Z is a broken target
\* whose backlinks hold A
C25_Witness ==
    /\ graph # <<>>
    /\ LinksTo("A", "Z")
    /\ LinksTo("B", "A")
    /\ "Z" \in Range(graph[1].outlinks["A"])
    /\ "A" \in Range(graph[1].backlinks["Z"])
    /\ graph[1].broken = <<[source |-> "A", target |-> "Z"]>>

\* a and b are joined by a link, in either direction
Adjacent(a, b) == LinksTo(a, b) \/ LinksTo(b, a)

\* there is a walk of exactly k steps from x to n
WalkOf(x, n, k) ==
    \E p \in [1..(k + 1) -> Nodes(notes)] :
        /\ p[1] = x
        /\ p[k + 1] = n
        /\ \A j \in 1..k : Adjacent(p[j], p[j + 1])

\* the length of the shortest path from x to n, 0 when there is none of at
\* most d steps
Distance(x, n, d) ==
    IF \E k \in 1..d : WalkOf(x, n, k)
    THEN CHOOSE k \in 1..d : WalkOf(x, n, k) /\ \A j \in 1..(k - 1) : ~WalkOf(x, n, j)
    ELSE 0

read_text(stored) ==
    [j \in 1..Len(stored) |-> [text |-> stored[j].text, nl |-> stored[j].eol # ""]]

\* full_path.write_text("".join(lines), encoding="utf-8"): text mode
\* writes every "\n" as os.linesep
write_text(lines, linesep) ==
    [j \in 1..Len(JoinedLines(lines)) |->
        [text |-> JoinedLines(lines)[j].text,
         eol |-> IF JoinedLines(lines)[j].nl THEN linesep ELSE ""]]

\* the line numbers search_tasks reports for a note: those of its tasks
TaskLineNumbers(lines) ==
    {n \in 1..Len(lines) : parse_task_line(lines[n].text, n, "A.md") # <<>>}

\* an invocation that reads the note again when it comes to write
HeldLines_ReadAgain(pr, stored) == read_text(stored)

\* the list `lines` an invocation works on: the one it read, however long ago
HeldLines(pr, stored) == pr.lines

\* the arguments of a create_task call that inserts the task 'n'
CreateCall(insert_at) ==
    [task_content |-> <<Word("n")>>, priority |-> "normal", due_date |-> NoDigits,
     scheduled_date |-> NoDigits, start_date |-> NoDigits, recurrence |-> <<>>,
     insert_at |-> insert_at, heading |-> <<>>]

\* the tool an invocation runs, on the lines it holds: the lines it writes
\* and its result
RunTool(pr, lines) ==
    CASE pr.op = "toggle" -> toggle_task_status_fs_tool(lines, pr.line_number, TRUE)
      [] pr.op = "update" ->
            update_task_metadata_fs_tool(lines, pr.line_number,
                                         [NoUpdates EXCEPT !.priority = <<"high">>])
      [] pr.op = "create" ->
            [lines  |-> create_task_fs_tool(TRUE, lines, CreateCall(pr.insert_at)).lines,
             result |-> create_task_fs_tool(TRUE, lines, CreateCall(pr.insert_at)).result]

(********************** inputs of the invocations ***************************)
MaxStored == 2      \* most lines of the stored note

StoredTexts == {Line(0, " ", <<Word("b")>>), Line(1, "x", <<Word("c")>>)}

\* the note stored with one kind of line ending throughout; the last line
\* may lack its line ending
StoredOf(txt, eol, last) ==
    [j \in 1..Len(txt) |-> [text |-> txt[j], eol |-> IF j = Len(txt) /\ ~last THEN "" ELSE eol]]

StoredNotes ==
    { StoredOf(txt, eol, last) :
        txt \in SeqsUpTo(StoredTexts, MaxStored) \ {<<>>},
        eol \in {"LF", "CRLF"}, last \in BOOLEAN }

\* the invocations made on a note: a toggle or an update of a task line
\* found in it, or a create at its top or end
Invocation(op, line_number, insert_at) ==
    [op |-> op, line_number |-> line_number, insert_at |-> insert_at,
     pc |-> "ready", lines |-> <<>>, result |-> <<>>]

Invocations(stored) ==
    { Invocation(op, n, "none") :
        op \in {"toggle", "update"}, n \in TaskLineNumbers(read_text(stored)) }
    \cup { Invocation("create", 0, at) : at \in {"top", "end"} }

(********************** uncoordinated invocations ***************************)
\* two invocations, each in a server process of its own, on one note;
\* nothing orders their reads and writes
DiskInit ==
    /\ today = D2
    /\ CodecIdle
    /\ QueryIdle
    /\ FileIdle
    /\ VaultIdle
    /\ ApiIdle
    /\ GraphIdle
    /\ disk \in [lines : StoredNotes, linesep : {"LF", "CRLF"}]
    /\ procs \in [1..2 -> Invocations(disk.lines)]
    /\ log = <<[p |-> 0, ev |-> "init", lines |-> disk.lines]>>

\* an invocation reads the note
ReadNote ==
    \E p \in 1..Len(procs) :
        /\ procs[p].pc = "ready"
        /\ procs' = [procs EXCEPT ![p].pc = "read", ![p].lines = read_text(disk.lines)]
        /\ log' = Append(log, [p |-> p, ev |-> "read", lines |-> disk.lines])
        /\ UNCHANGED <<today, codecVars, queryVars, fileVars, vaultVars, apiVars,
                       graphVars, disk>>

\* an invocation computes its edit on the lines it holds and writes the
\* note, or returns a failure without writing
WriteBack ==
    \E p \in 1..Len(procs) :
        LET out == RunTool(procs[p], HeldLines(procs[p], disk.lines))
            written == IF out.result.success
                       THEN write_text(out.lines, disk.linesep)
                       ELSE disk.lines
        IN  /\ procs[p].pc = "read"
            /\ disk' = [disk EXCEPT !.lines = written]
            /\ procs' = [procs EXCEPT ![p].pc = "done", ![p].result = <<out.result>>]
            /\ log' = Append(log, [p |-> p,
                                   ev |-> IF out.result.success THEN "write" ELSE "return",
                                   lines |-> written])
            /\ UNCHANGED <<today, codecVars, queryVars, fileVars, vaultVars, apiVars,
                           graphVars>>

DiskNext == ReadNote \/ WriteBack

SpecDisk == DiskInit /\ [][DiskNext]_vars

(******************* claims on the stored note ******************************)
\* what an invocation alone would have left of the note as it was at first
Alone(pr) ==
    write_text(RunTool(pr, read_text(log[1].lines)).lines, disk.linesep)

\* both invocations read the note before either wrote it, and both wrote
BothReadFirst ==
    /\ Len(log) = 5
    /\ log[2].ev = "read" /\ log[3].ev = "read"
    /\ log[4].ev = "write" /\ log[5].ev = "write"

\* invocation c, a create, was over before invocation t, a toggle or an
\* update, read the note, and put its task at or above the line t addresses
InsertedAbove(c, t) ==
    /\ Len(log) = 5
    /\ procs[c].op = "create" /\ procs[t].op \in {"toggle", "update"}
    /\ log[2].p = c /\ log[3].p = c /\ log[3].ev = "write"
    /\ log[4].p = t /\ log[5].p = t
    /\ procs[c].result[1].line_number <= procs[t].line_number

\* C22: task mutations on the same file are not coordinated: when two
\* operations both read the file before either writes it, the file ends as
\* the later writer wrote it and the earlier writer's edit is lost; and a
\* toggle or update addressed by a line number obtained before an
\* intervening insertion above that line acts on a different line than the
\* one originally found (the line found is left as it was, one line below).
C22_LastWriterWins ==
    /\ BothReadFirst => disk.lines = Alone(procs[log[5].p])
    /\ \A c, t \in 1..Len(procs) :
          InsertedAbove(c, t) =>
              LET n == procs[t].line_number
              IN  /\ procs[t].lines[n].text =
                        IF n = 1 THEN procs[c].result[1].task_line[1]
                        ELSE log[1].lines[n - 1].text
                  /\ disk.lines[n + 1].text = log[1].lines[n].text
                  /\ procs[t].result[1].success =>
                        disk.lines[n].text = procs[t].result[1].updated_line[1]

\* a toggle of line 1 and a create at the end both read the one-line note;
\* the toggle writes first, the create last: the note ends with line 1 as it
\* was and the new task, the toggle is gone;
\* or: a create at the top is over before the toggle of line 1 reads, and
\* the toggle completes the task just created
C22_Witness ==
    /\ Len(log) = 5
    /\ Len(log[1].lines) = 1
    /\ \/ /\ BothReadFirst
          /\ procs[log[4].p].op = "toggle" /\ procs[log[4].p].result[1].success
          /\ procs[log[5].p].op = "create" /\ procs[log[5].p].insert_at = "end"
          /\ log[1].lines[1].eol # ""
          /\ Len(disk.lines) = 2
          /\ disk.lines[1].text = log[1].lines[1].text
          /\ log[4].lines[1].text # log[1].lines[1].text
       \/ /\ \E c, t \in 1..2 :
                /\ InsertedAbove(c, t)
                /\ procs[t].op = "toggle" /\ procs[t].line_number = 1
                /\ procs[t].result[1].success
          /\ disk.lines[1].text = Line(0, "x", <<Word("n"), DateTok(DONE_EMOJI, Strftime(today))>>)
          /\ disk.lines[2].text = log[1].lines[1].text

\* C27: a successful toggle_task_status or update_task_metadata rewrites
\* only the addressed line: every other line of the file is byte-identical
\* afterwards and the file's number of lines is unchanged.  Stated on an
\* invocation that wrote right after it read.
C27_OnlyAddressedLineRewritten ==
    \A k \in 3..Len(log) :
        ( /\ log[k].ev = "write"
          /\ procs[log[k].p].op \in {"toggle", "update"}
          /\ log[k - 1].p = log[k].p ) =>
            /\ Len(log[k].lines) = Len(log[k - 1].lines)
            /\ \A j \in 1..Len(log[k].lines) :
                  j # procs[log[k].p].line_number => log[k].lines[j] = log[k - 1].lines[j]

====
